---- MODULE Spec2Model ----
(***************************************************************************)
(* bjishk: peer-federated uptime monitor (Go server).                      *)
(*                                                                         *)
(* The model covers the probe loop (monitor.CheckService,                  *)
(* federation.CheckPeer), the record step that follows a probe             *)
(* (monitor.PerformCheck, federation.PerformPeerCheck) and the rows of    *)
(* the store these write (services, peers, logs, notifications).           *)
(*                                                                         *)
(* Two specifications:                                                     *)
(*   Spec       the up/down state machine: probe cycles of the stored      *)
(*              targets, one whole PerformCheck / PerformPeerCheck per     *)
(*              step;                                                      *)
(*   SpecCheck  the probe functions alone: Init draws an endpoint          *)
(*              behaviour and a retry count, the actions apply             *)
(*              CheckService / CheckPeer to it.                            *)
(***************************************************************************)
EXTENDS Integers, Sequences, FiniteSets, TLC

\* ------------------------------------------------------------------ bounds
\* probe cycles performed in one behaviour of Spec (all targets together)
MaxCycles == 6
\* largest configured retry count (config.Monitoring.MaxRetries)
MaxRetries == 2
\* probe cycles of each of the two services of SpecReplay
MaxReplay == 4
\* probe cycles (all targets together) in the dispatcher specifications
MaxDispatchCycles == 3
\* emails after which SpecDispatch starts no further sweep
MaxMails == 3
\* goroutines StartMonitoring spawns in SpecLife
MaxGoroutines == 2
\* probe cycles after which SpecLife acts on no further tick
MaxLifeCycles == 2
\* checkService calls of the Node backend
MaxNodeChecks == 3

\* ------------------------------------------------------- program constants
\* consecutive failures required by the DOWN branch (hard-coded literal)
FailureThreshold == 3

\* ----------------------------------------------------------------- targets
Services == {"s1"}
Peers == {"p1"}
Targets == Services \cup Peers

VARIABLES
    config,         \* MonitorConfig / FederationConfig: [Retries]
    services,       \* services table: id -> row
    peers,          \* peers table: id -> row
    logs,           \* logs table, projected per target, in insertion order
    notifications,  \* notifications table in insertion order (index = ID)
    chk,            \* SpecCheck, SpecHealth: the call under observation
    node,           \* the Node backend: clock, service_status, calls, emails
    outbox,         \* the mail server: emails accepted from SendEmail, in order
    swept,          \* what the latest ProcessNotifications printed
    mon,            \* monitor.Monitor: quit, timers, tickers, goroutines
    disp,           \* notification.Service: ticker, quit, goroutine
    fed,            \* federation.Service: ticker, quit, goroutine
    main            \* where func main is

\* the processes around the store: mail, dispatcher, schedulers, main
procVars == <<outbox, swept, mon, disp, fed, main>>

vars == <<config, services, peers, logs, notifications, chk, node, procVars>>

\* ------------------------------------------------------- endpoint responses
\* What one attempt of the probe loop meets.  err: "request" = http.NewRequest
\* failed, "transport" = client.Do failed (DNS, refused, timeout), "none" = a
\* response arrived.  rt is the elapsed time of the attempt in ms, html tells
\* whether Content-Type matches text/html, title is the text of the first
\* <title> element of the body ("" when there is none).
NewRequestErr == [err |-> "request", code |-> 0, rt |-> 0, html |-> FALSE, title |-> ""]
TransportErr == [err |-> "transport", code |-> 0, rt |-> 0, html |-> FALSE, title |-> ""]
HttpResponse(c, t, h, ti) == [err |-> "none", code |-> c, rt |-> t, html |-> h, title |-> ti]

\* responses of a service endpoint used by SpecCheck
ServiceResponses ==
    {NewRequestErr, TransportErr}
    \cup {HttpResponse(200, t, h, ti) : t \in {0, 7}, h \in BOOLEAN, ti \in {"", "Home"}}
    \cup {HttpResponse(c, 7, FALSE, "") : c \in {304, 404, 500}}

\* responses of a service endpoint used by the state machine Spec
CoreServiceResponses == {TransportErr, HttpResponse(200, 7, FALSE, ""), HttpResponse(500, 7, FALSE, "")}

\* A peer's answer to GET <url>/api/health.  json tells whether the body
\* decodes into HealthResponse, status is the body's "status" field ("" when
\* the field is absent).
PeerRequestErr == [err |-> "request", code |-> 0, json |-> FALSE, status |-> ""]
PeerTransportErr == [err |-> "transport", code |-> 0, json |-> FALSE, status |-> ""]
PeerResponse(c, j, s) == [err |-> "none", code |-> c, json |-> j, status |-> s]

PeerResponses ==
    {PeerRequestErr, PeerTransportErr}
    \cup {PeerResponse(200, TRUE, s) : s \in {"ok", "error", ""}}
    \cup {PeerResponse(200, FALSE, ""), PeerResponse(204, FALSE, "")}
    \cup {PeerResponse(500, TRUE, "ok"), PeerResponse(500, FALSE, "")}

CorePeerResponses ==
    {PeerTransportErr, PeerResponse(200, TRUE, "ok"), PeerResponse(200, TRUE, "error"),
     PeerResponse(200, FALSE, ""), PeerResponse(500, FALSE, "")}

\* an endpoint's behaviour during one probe call: its answer to attempt 1,
\* 2, ... (the loop asks for at most retries+1 of them)
Behaviours(R, retries) == [1..(retries + 1) -> R]

\* ------------------------------------------------------------ probe: service
\* CheckResult, extended with two observation fields: attempts = iterations of
\* the retry loop that ran, sleeps = time.Sleep(RetryDelay) calls made.
CheckResult(status, rt, title, error, attempts, sleeps) ==
    [Status |-> status, ResponseTime |-> rt, Title |-> title, Error |-> error,
     attempts |-> attempts, sleeps |-> sleeps]

\* loop condition of CheckService with the off-by-one a retry loop invites
ServiceLoopCond_OffByOne(attempt, retries) == attempt < retries

\* for attempt := 0; attempt <= m.config.Retries; attempt++
ServiceLoopCond(attempt, retries) == attempt <= retries

\* the body of the loop from iteration `attempt` on
RECURSIVE CheckServiceLoop(_, _, _, _)
CheckServiceLoop(behaviour, retries, attempt, sleeps) ==
    IF ~ServiceLoopCond(attempt, retries)
    THEN CheckResult("down", 0, "", "All retries failed", attempt, sleeps)
    ELSE LET r == behaviour[attempt + 1] IN
         IF r.err = "request"
         THEN IF attempt < retries
              THEN CheckServiceLoop(behaviour, retries, attempt + 1, sleeps + 1)
              ELSE CheckResult("down", 0, "", "Failed to create request", attempt + 1, sleeps)
         ELSE IF r.err = "transport"
         THEN IF attempt < retries
              THEN CheckServiceLoop(behaviour, retries, attempt + 1, sleeps + 1)
              ELSE CheckResult("down", 0, "", "Request failed", attempt + 1, sleeps)
         ELSE IF r.code >= 200 /\ r.code < 300
         THEN CheckResult("up", r.rt, IF r.html THEN r.title ELSE "", "", attempt + 1, sleeps)
         ELSE IF attempt < retries
              THEN CheckServiceLoop(behaviour, retries, attempt + 1, sleeps + 1)
              ELSE CheckResult("down", 0, "", "HTTP " \o ToString(r.code), attempt + 1, sleeps)

CheckService(behaviour, retries) == CheckServiceLoop(behaviour, retries, 0, 0)

\* --------------------------------------------------------------- probe: peer
\* (status, err) of CheckPeer; Error = "" stands for a nil error
PeerResult(status, error, attempts, sleeps) ==
    [Status |-> status, Error |-> error, attempts |-> attempts, sleeps |-> sleeps]

\* for attempt := 0; attempt <= s.config.Retries; attempt++
PeerLoopCond(attempt, retries) == attempt <= retries

\* what CheckPeer returns for a 2xx response: the decoded status decides, and
\* a body that does not decode falls through to "up"
PeerHealthVerdict(r, attempts, sleeps) ==
    IF r.json
    THEN IF r.status = "ok"
         THEN PeerResult("up", "", attempts, sleeps)
         ELSE PeerResult("down", "health check returned error status", attempts, sleeps)
    ELSE PeerResult("up", "", attempts, sleeps)

RECURSIVE CheckPeerLoop(_, _, _, _)
CheckPeerLoop(behaviour, retries, attempt, sleeps) ==
    IF ~PeerLoopCond(attempt, retries)
    THEN PeerResult("down", "all retries failed", attempt, sleeps)
    ELSE LET r == behaviour[attempt + 1] IN
         IF r.err = "request"
         THEN IF attempt < retries
              THEN CheckPeerLoop(behaviour, retries, attempt + 1, sleeps + 1)
              ELSE PeerResult("down", "request error", attempt + 1, sleeps)
         ELSE IF r.err = "transport"
         THEN IF attempt < retries
              THEN CheckPeerLoop(behaviour, retries, attempt + 1, sleeps + 1)
              ELSE PeerResult("down", "transport error", attempt + 1, sleeps)
         ELSE IF r.code >= 200 /\ r.code < 300
         THEN PeerHealthVerdict(r, attempt + 1, sleeps)
         ELSE IF attempt < retries
              THEN CheckPeerLoop(behaviour, retries, attempt + 1, sleeps + 1)
              ELSE PeerResult("down", "HTTP " \o ToString(r.code), attempt + 1, sleeps)

CheckPeer(behaviour, retries) == CheckPeerLoop(behaviour, retries, 0, 0)

\* the results a probe can hand to the record step, by configured retry count
ServiceResults ==
    [retries \in 0..MaxRetries |->
        {CheckService(b, retries) : b \in Behaviours(CoreServiceResponses, retries)}]

PeerResults ==
    [retries \in 0..MaxRetries |->
        {CheckPeer(b, retries) : b \in Behaviours(CorePeerResponses, retries)}]

\* ------------------------------------------------------------------- store
\* A nullable column holds <<>> (NULL) or <<v>>.
Null == <<>>
Some(v) == <<v>>

\* DB.AddService: a new row has status "unknown"; the other columns take
\* their zero values / defaults
AddService == [Status |-> "unknown", ConsecutiveFailures |-> 0, ResponseTime |-> Null,
               Name |-> Null, Caregiver |-> Null, LastCheck |-> Null]

\* the admin_email of a peer_instances entry "url:email"
PeerAdminEmail(id) == "admin@" \o id

\* DB.AddPeer
AddPeer(id) == [Status |-> "unknown", ConsecutiveFailures |-> 0, LastCheck |-> Null,
                AdminEmail |-> PeerAdminEmail(id)]

\* a row of the logs table
LogRow(status, responseTime, message) ==
    [Status |-> status, ResponseTime |-> responseTime, Message |-> message]

\* an update without its WHERE clause: every row of the table is written
UpdateService_AllRows(id, updated) == [s \in DOMAIN services |-> updated]

\* an update that leaves the status column out
UpdateService_WithoutStatus(id, updated) ==
    [services EXCEPT ![id] = [updated EXCEPT !.Status = services[id].Status]]

\* DB.UpdateService: Updates on the row WHERE id = ?
UpdateService(id, updated) == [services EXCEPT ![id] = updated]

\* DB.UpdatePeer: Updates on the row WHERE id = ?
UpdatePeer(id, updated) == [peers EXCEPT ![id] = updated]

\* a store that creates notification rows already marked sent
NotificationRow_BornSent(target, kind, cycle) ==
    [target |-> target, kind |-> kind, cycle |-> cycle, Sent |-> TRUE, Error |-> Null]

\* DB.AddNotification: the new row is unsent and carries no error.  kind is
\* the message ("... is DOWN ..." / "... is back UP ..."), cycle is the
\* creation time, counted in probe cycles of the target.
NotificationRow(target, kind, cycle) ==
    [target |-> target, kind |-> kind, cycle |-> cycle, Sent |-> FALSE, Error |-> Null]

Row(t) == IF t \in Services THEN services[t] ELSE peers[t]

RECURSIVE SumLen(_)
SumLen(S) == IF S = {} THEN 0
             ELSE LET t == CHOOSE x \in S : TRUE IN Len(logs[t]) + SumLen(S \ {t})

\* probe cycles recorded so far
CyclesDone == SumLen(Targets)

\* --------------------------------------------------- record step: service
\* a record step that takes the title of every probe that returned one
NameDue_Always(name, title) == title # ""

\* a record step that writes response_time in every cycle
ResponseTimeDue_Always(responseTime) == TRUE

\* if result.ResponseTime > 0: updateData["response_time"] is set
ResponseTimeDue(responseTime) == responseTime > 0

\* if service.Name == nil && result.Title != "": updateData["name"] is set
NameDue(name, title) == name = Null /\ title # ""

\* failure count that is never reset by an up result
ServiceFailures_NoReset(newStatus, previousFailures) ==
    IF newStatus = "down" THEN previousFailures + 1 ELSE previousFailures

\* failure count that forgets the stored count
ServiceFailures_Restart(newStatus, previousFailures) ==
    IF newStatus = "down" THEN 1 ELSE 0

\* consecutiveFailures := 0; if newStatus == "down" { ... = service.ConsecutiveFailures + 1 }
ServiceFailures(newStatus, previousFailures) ==
    IF newStatus = "down" THEN previousFailures + 1 ELSE 0

\* DOWN branch without the status-change test
ServiceDownDue_NoDedup(previousStatus, newStatus, consecutiveFailures) ==
    newStatus = "down" /\ consecutiveFailures >= FailureThreshold

\* previousStatus != newStatus && newStatus == "down" && consecutiveFailures >= 3
ServiceDownDue(previousStatus, newStatus, consecutiveFailures) ==
    /\ previousStatus # newStatus
    /\ newStatus = "down"
    /\ consecutiveFailures >= FailureThreshold

\* UP branch with == written for !=
ServiceUpDue_Equal(previousStatus, newStatus) ==
    previousStatus = newStatus /\ newStatus = "up"

\* UP branch that skips the insert while any UP notification is still unsent,
\* whichever target it is about
ServiceUpDue_AnyPending(previousStatus, newStatus) ==
    /\ previousStatus # newStatus
    /\ newStatus = "up"
    /\ \A n \in DOMAIN notifications :
          notifications[n].kind = "UP" => notifications[n].Sent

\* else if previousStatus != newStatus && newStatus == "up"
ServiceUpDue(previousStatus, newStatus) ==
    previousStatus # newStatus /\ newStatus = "up"

\* Monitor.PerformCheck(service) after CheckService returned `result`.
\* service is the struct the caller passed; UpdateService writes the listed
\* columns of the stored row.  updOK, logOK, notifOK: whether UpdateService,
\* AddLog and AddNotification succeed.
PerformCheckWith(id, service, result, updOK, logOK, notifOK) ==
    LET cycle == Len(logs[id]) + 1
        previousStatus == service.Status
        newStatus == result.Status
        consecutiveFailures == ServiceFailures(newStatus, service.ConsecutiveFailures)
        updated == [services[id] EXCEPT
                       !.LastCheck = Some(cycle),
                       !.Status = newStatus,
                       !.ConsecutiveFailures = consecutiveFailures,
                       !.ResponseTime = IF ResponseTimeDue(result.ResponseTime)
                                        THEN Some(result.ResponseTime) ELSE @,
                       !.Name = IF NameDue(service.Name, result.Title)
                                THEN Some(result.Title) ELSE @]
        message == IF result.Error # "" THEN Some(result.Error) ELSE Null
        responseTime == IF result.ResponseTime > 0 THEN Some(result.ResponseTime) ELSE Null
    IN  IF ~updOK
        THEN UNCHANGED <<services, logs, notifications>>
        ELSE /\ services' = UpdateService(id, updated)
             /\ logs' = IF logOK
                        THEN [logs EXCEPT ![id] = Append(@, LogRow(newStatus, responseTime, message))]
                        ELSE logs
             /\ notifications' =
                    IF ServiceDownDue(previousStatus, newStatus, consecutiveFailures)
                    THEN IF notifOK THEN Append(notifications, NotificationRow(id, "DOWN", cycle))
                                    ELSE notifications
                    ELSE IF ServiceUpDue(previousStatus, newStatus)
                    THEN IF notifOK THEN Append(notifications, NotificationRow(id, "UP", cycle))
                                    ELSE notifications
                    ELSE notifications

\* what PerformCheck prints about the store: "Failed to update service",
\* "Failed to add log", "Failed to create notification"
PerformCheckPrints(service, result, updOK, logOK, notifOK) ==
    LET previousStatus == service.Status
        newStatus == result.Status
        consecutiveFailures == ServiceFailures(newStatus, service.ConsecutiveFailures)
    IN  IF ~updOK THEN {"update"}
        ELSE (IF logOK THEN {} ELSE {"log"})
             \cup (IF /\ ~notifOK
                       /\ \/ ServiceDownDue(previousStatus, newStatus, consecutiveFailures)
                          \/ ServiceUpDue(previousStatus, newStatus)
                    THEN {"notification"} ELSE {})

\* PerformCheck on the stored row: StartMonitoring passes the row read at
\* startup to the first cycle and the row re-read by GetService to every
\* later one
PerformCheckOf(id, result, updOK, logOK, notifOK) ==
    PerformCheckWith(id, services[id], result, updOK, logOK, notifOK)

\* ------------------------------------------------------ record step: peer
\* consecutiveFailures := 0; if status == "down" { ... = peer.ConsecutiveFailures + 1 }
PeerFailures(status, previousFailures) ==
    IF status = "down" THEN previousFailures + 1 ELSE 0

\* previousStatus != status && status == "down" && consecutiveFailures >= 3
PeerDownDue(previousStatus, status, consecutiveFailures) ==
    /\ previousStatus # status
    /\ status = "down"
    /\ consecutiveFailures >= FailureThreshold

\* else if previousStatus != status && status == "up"
PeerUpDue(previousStatus, status) ==
    previousStatus # status /\ status = "up"

\* Service.PerformPeerCheck(peer) after CheckPeer returned `result`; peer is
\* the struct the caller passed
PerformPeerCheckWith(id, peer, result, updOK, logOK, notifOK) ==
    LET cycle == Len(logs[id]) + 1
        status == result.Status
        previousStatus == peer.Status
        consecutiveFailures == PeerFailures(status, peer.ConsecutiveFailures)
        updated == [peers[id] EXCEPT
                       !.LastCheck = Some(cycle),
                       !.Status = status,
                       !.ConsecutiveFailures = consecutiveFailures]
        message == IF result.Error # "" THEN Some(result.Error) ELSE Null
    IN  IF ~updOK
        THEN UNCHANGED <<peers, logs, notifications>>
        ELSE /\ peers' = UpdatePeer(id, updated)
             /\ logs' = IF logOK
                        THEN [logs EXCEPT ![id] = Append(@, LogRow(status, Null, message))]
                        ELSE logs
             /\ notifications' =
                    IF PeerDownDue(previousStatus, status, consecutiveFailures)
                    THEN IF notifOK THEN Append(notifications, NotificationRow(id, "DOWN", cycle))
                                    ELSE notifications
                    ELSE IF PeerUpDue(previousStatus, status)
                    THEN IF notifOK THEN Append(notifications, NotificationRow(id, "UP", cycle))
                                    ELSE notifications
                    ELSE notifications

\* what PerformPeerCheck prints about the store: "Failed to update peer",
\* "Failed to add log", "Failed to create notification"
PerformPeerCheckPrints(peer, result, updOK, logOK, notifOK) ==
    LET previousStatus == peer.Status
        status == result.Status
        consecutiveFailures == PeerFailures(status, peer.ConsecutiveFailures)
    IN  IF ~updOK THEN {"update"}
        ELSE (IF logOK THEN {} ELSE {"log"})
             \cup (IF /\ ~notifOK
                       /\ \/ PeerDownDue(previousStatus, status, consecutiveFailures)
                          \/ PeerUpDue(previousStatus, status)
                    THEN {"notification"} ELSE {})

\* PerformPeerCheck on the stored row, which checkAllPeers has just read with
\* GetAllPeers
PerformPeerCheckOf(id, result, updOK, logOK, notifOK) ==
    PerformPeerCheckWith(id, peers[id], result, updOK, logOK, notifOK)

\* ------------------------------------------------------------- processes
\* the instance-wide address of the configuration (cfg.AdminEmail)
AdminEmail == "admin@instance"

\* nothing printed yet by ProcessNotifications
NothingSwept == [flip |-> FALSE, attempted |-> <<>>, delivered |-> {}, failed |-> {}]

\* monitor.New: open quit channel, no timers
MonitorNew == [quit |-> FALSE, timers |-> [id \in Services |-> 0],
               tickers |-> <<>>, goroutines |-> <<>>]

\* notification.New: nil ticker, open quit channel, no goroutine
ServiceNew ==
    [ticker |-> "nil", tick |-> FALSE, quit |-> FALSE, pc |-> "none", since |-> 0]

\* federation.New: the same, and no sweep under way
FederationNew == [ticker |-> "nil", tick |-> FALSE, quit |-> FALSE, pc |-> "none",
                  queue |-> <<>>, printed |-> {}, cycles |-> 0]

\* the calls func main makes after the interrupt signal, in order
ShutdownSequence ==
    <<"StopAll", "StopProcessing", "StopMonitoring", "Stop", "Close", "db.Close">>

\* func main blocked on sigChan
MainRunning == [call |-> 0, pc |-> "running"]

\* the Node backend after setupDatabase: empty service_status table, no
\* checkService call, no email; overlapped observes whether a call was made
\* while another had not returned
NodeNew == [now |-> 1, service_status |-> <<>>, calls |-> <<>>, sent |-> <<>>,
            overlapped |-> FALSE]

\* the processes before main starts any of them
ProcInit ==
    /\ outbox = <<>>
    /\ swept = NothingSwept
    /\ mon = MonitorNew
    /\ disp = ServiceNew
    /\ fed = FederationNew
    /\ main = MainRunning

\* ----------------------------------------------------- specification Spec
NoCheck == [kind |-> "none"]

\* the store after main has added the configured services and peers
StoreInit ==
    /\ services = [id \in Services |-> AddService]
    /\ peers = [id \in Peers |-> AddPeer(id)]
    /\ logs = [t \in Targets |-> <<>>]
    /\ notifications = <<>>

Init ==
    /\ config \in [Retries : 0..MaxRetries]
    /\ StoreInit
    /\ chk = NoCheck
    /\ node = NodeNew
    /\ ProcInit

\* one probe-and-record cycle of a service, the store's writes succeeding
PerformCheck ==
    \E id \in Services :
        \E result \in ServiceResults[config.Retries] :
            /\ CyclesDone < MaxCycles
            /\ PerformCheckOf(id, result, TRUE, TRUE, TRUE)
            /\ UNCHANGED <<config, peers, chk, node, procVars>>

\* one probe-and-record cycle of a peer, the store's writes succeeding
PerformPeerCheck ==
    \E id \in Peers :
        \E result \in PeerResults[config.Retries] :
            /\ CyclesDone < MaxCycles
            /\ PerformPeerCheckOf(id, result, TRUE, TRUE, TRUE)
            /\ UNCHANGED <<config, services, chk, node, procVars>>

Next == PerformCheck \/ PerformPeerCheck

Spec == Init /\ [][Next]_vars

\* ------------------------------------------------ specification SpecCheck
\* a call of CheckService or CheckPeer: the configured retry count, what the
\* endpoint answers to each attempt, and the returned value once pc = "returned"
CheckCalls ==
    UNION {
        {[kind |-> "service", retries |-> r, behaviour |-> b, pc |-> "call",
          result |-> CheckResult("", 0, "", "", 0, 0)] : b \in Behaviours(ServiceResponses, r)}
        \cup
        {[kind |-> "peer", retries |-> r, behaviour |-> b, pc |-> "call",
          result |-> PeerResult("", "", 0, 0)] : b \in Behaviours(PeerResponses, r)}
        : r \in 0..MaxRetries }

InitCheck ==
    /\ chk \in CheckCalls
    /\ node = NodeNew
    /\ config = [Retries |-> chk.retries]
    /\ StoreInit
    /\ ProcInit

RunCheckService ==
    /\ chk.kind = "service"
    /\ chk.pc = "call"
    /\ chk' = [chk EXCEPT !.pc = "returned",
                          !.result = CheckService(chk.behaviour, config.Retries)]
    /\ UNCHANGED <<config, services, peers, logs, notifications, node, procVars>>

RunCheckPeer ==
    /\ chk.kind = "peer"
    /\ chk.pc = "call"
    /\ chk' = [chk EXCEPT !.pc = "returned",
                          !.result = CheckPeer(chk.behaviour, config.Retries)]
    /\ UNCHANGED <<config, services, peers, logs, notifications, node, procVars>>

NextCheck == RunCheckService \/ RunCheckPeer

SpecCheck == InitCheck /\ [][NextCheck]_vars

\* ================================================================ properties
\* Under Spec every cycle appends one log row, so logs[t][i] is the result of
\* the i-th probe cycle of target t.
Cycles(t) == 1..Len(logs[t])

StatusAt(t, i) == logs[t][i].Status

\* the stored status the i-th cycle found
StatusBefore(t, i) == IF i = 1 THEN "unknown" ELSE logs[t][i - 1].Status

\* the results of the first n cycles of t
Statuses(t) == [i \in Cycles(t) |-> StatusAt(t, i)]

\* number of consecutive down results ending with cycle i
RECURSIVE Streak(_, _)
Streak(t, i) == IF i = 0 \/ StatusAt(t, i) # "down" THEN 0 ELSE 1 + Streak(t, i - 1)

\* number of notifications of the given kind that cycle i of t created
NotifsAt(t, kind, i) ==
    Cardinality({n \in DOMAIN notifications :
                    /\ notifications[n].target = t
                    /\ notifications[n].kind = kind
                    /\ notifications[n].cycle = i})

\* the notifications of t in creation order, as <<kind, cycle>>
RECURSIVE NotifsOfFrom(_, _)
NotifsOfFrom(t, n) ==
    IF n > Len(notifications) THEN <<>>
    ELSE IF notifications[n].target = t
         THEN <<<<notifications[n].kind, notifications[n].cycle>>>> \o NotifsOfFrom(t, n + 1)
         ELSE NotifsOfFrom(t, n + 1)

NotifsOf(t) == NotifsOfFrom(t, 1)

\* C1 (as claimed): a cycle creates a DOWN notification exactly when it is the
\* cycle at which the run of consecutive failures reaches FailureThreshold;
\* for [up, down, down, down, down] that is cycle 4 and no other.
C1_DownExactlyAtThreshold ==
    \A t \in Targets : \A i \in Cycles(t) :
        NotifsAt(t, "DOWN", i) = IF Streak(t, i) = FailureThreshold THEN 1 ELSE 0

\* C2: between two DOWN notifications of one target there is a cycle that
\* recorded up, and no cycle creates more than one DOWN notification: at most
\* one DOWN notification per run of failures, however long the run.
C2_AtMostOneDownPerIncident ==
    \A t \in Targets : \A i \in Cycles(t) :
        /\ NotifsAt(t, "DOWN", i) <= 1
        /\ \A j \in Cycles(t) :
              (i < j /\ NotifsAt(t, "DOWN", i) > 0 /\ NotifsAt(t, "DOWN", j) > 0)
                  => \E k \in (i + 1)..(j - 1) : StatusAt(t, k) = "up"

\* a target whose failures ran past the threshold, still with at most one
\* DOWN notification
C2_Witness ==
    \E t \in Targets :
        /\ Row(t).ConsecutiveFailures > FailureThreshold
        /\ Cardinality({n \in DOMAIN notifications :
                           notifications[n].target = t /\ notifications[n].kind = "DOWN"}) <= 1

\* C3: a step that takes a target's stored status from down to up appends
\* exactly one notification, an UP notification of that target created in
\* that cycle.
C3_UpTransitionNotifiesOnce ==
    [][\A t \in Targets :
          (Row(t).Status = "down" /\ Row(t)'.Status = "up")
              => /\ Len(notifications') = Len(notifications) + 1
                 /\ SubSeq(notifications', 1, Len(notifications)) = notifications
                 /\ notifications'[Len(notifications')] =
                        NotificationRow(t, "UP", Len(logs'[t]))]_vars

\* a recovery cycle (stored status down, result up) with its UP notification
C3_Witness ==
    \E t \in Targets : \E i \in Cycles(t) :
        /\ StatusBefore(t, i) = "down"
        /\ StatusAt(t, i) = "up"
        /\ NotifsAt(t, "UP", i) = 1

\* C4 (as claimed): a cycle creates an UP notification if and only if it
\* found the stored status down (and the probe says up); unknown -> up and
\* up -> up cycles create none.
C4_UpNotificationIffWasDown ==
    \A t \in Targets : \A i \in Cycles(t) :
        (NotifsAt(t, "UP", i) > 0) <=> (StatusBefore(t, i) = "down" /\ StatusAt(t, i) = "up")

\* C5: a target whose stored status is up has a stored failure count of 0.
C5_UpImpliesNoFailures ==
    \A t \in Targets : Row(t).Status = "up" => Row(t).ConsecutiveFailures = 0

\* a target that is up after having failed
C5_Witness ==
    \E t \in Targets :
        /\ Row(t).Status = "up"
        /\ \E i \in Cycles(t) : StatusAt(t, i) = "down"

\* C6 (as claimed): after [down, down, down, up] on a fresh target its
\* notifications are a DOWN created at cycle 3 and an UP created at cycle 4.
C6_ScenarioB ==
    \A t \in Targets :
        Statuses(t) = <<"down", "down", "down", "up">>
            => NotifsOf(t) = << <<"DOWN", 3>>, <<"UP", 4>> >>

\* C7 (as claimed): after [down, down, up, down, down, down] on a fresh target
\* its notifications are an UP created at cycle 3 and a DOWN created at
\* cycle 6.
C7_ScenarioC ==
    \A t \in Targets :
        Statuses(t) = <<"down", "down", "up", "down", "down", "down">>
            => NotifsOf(t) = << <<"UP", 3>>, <<"DOWN", 6>> >>

\* C8: the stored failure count equals the number of consecutive down results
\* that end with the latest cycle: k after k downs in a row, 0 after an up.
C8_FailuresCountTheStreak ==
    \A t \in Targets : Row(t).ConsecutiveFailures = Streak(t, Len(logs[t]))

\* a target that failed three times in a row after an up
C8_Witness ==
    \E t \in Targets :
        /\ Row(t).ConsecutiveFailures = 3
        /\ \E i \in Cycles(t) : StatusAt(t, i) = "up"

\* ------------------------------------------------------ probe calls (SpecCheck)
Returned == chk.kind # "none" /\ chk.pc = "returned"

Is2xx(r) == r.err = "none" /\ r.code >= 200 /\ r.code < 300

\* an attempt fails when its response, were it the only attempt, gives down
AttemptFails(kind, r) ==
    IF kind = "peer" THEN CheckPeer(<<r>>, 0).Status = "down"
                     ELSE CheckService(<<r>>, 0).Status = "down"

Min(S) == CHOOSE x \in S : \A y \in S : x <= y

\* C9 (as claimed): against an endpoint that fails on every attempt the call
\* makes Retries+1 attempts, with a sleep between consecutive attempts, and
\* returns down; otherwise it stops at the first successful attempt.
C9_RetriesUntilSuccess ==
    Returned =>
        LET n == chk.retries + 1
            ok == {i \in 1..n : ~AttemptFails(chk.kind, chk.behaviour[i])}
        IN  /\ chk.result.attempts = IF ok = {} THEN n ELSE Min(ok)
            /\ chk.result.sleeps = chk.result.attempts - 1
            /\ chk.result.Status = IF ok = {} THEN "down" ELSE "up"

\* C9 (amended): when every attempt ends in a request error, a transport
\* error or a non-2xx response the call makes Retries+1 attempts and returns
\* down; otherwise it stops at the first attempt that receives a 2xx
\* response; a sleep separates consecutive attempts.
C9_RetriesUntil2xx ==
    Returned =>
        LET n == chk.retries + 1
            got == {i \in 1..n : Is2xx(chk.behaviour[i])}
        IN  /\ chk.result.attempts = IF got = {} THEN n ELSE Min(got)
            /\ chk.result.sleeps = chk.result.attempts - 1
            /\ got = {} => chk.result.Status = "down"

\* retries = 2 against an endpoint that never answers 2xx: three attempts,
\* two sleeps, down
C9_Witness ==
    /\ Returned
    /\ chk.retries = 2
    /\ \A i \in 1..3 : ~Is2xx(chk.behaviour[i])
    /\ chk.result.attempts = 3
    /\ chk.result.sleeps = 2
    /\ chk.result.Status = "down"

\* C10 (as claimed): CheckPeer returns up if and only if the response of its
\* last attempt is a 2xx response whose body is health JSON with status "ok".
C10_PeerUpIffOk ==
    (Returned /\ chk.kind = "peer" /\ chk.result.attempts >= 1) =>
        LET final == chk.behaviour[chk.result.attempts]
        IN  (chk.result.Status = "up") <=> (Is2xx(final) /\ final.json /\ final.status = "ok")

\* ---------------------------------------------- specification SpecReplay
\* Two services added fresh to the store and probed independently, as two
\* goroutines of StartMonitoring do.
ReplayServices == {"s1", "s2"}

InitReplay ==
    /\ config \in [Retries : 0..MaxRetries]
    /\ services = [id \in ReplayServices |-> AddService]
    /\ peers = [id \in Peers |-> AddPeer(id)]
    /\ logs = [t \in ReplayServices \cup Peers |-> <<>>]
    /\ notifications = <<>>
    /\ chk = NoCheck
    /\ node = NodeNew
    /\ ProcInit

\* one probe-and-record cycle of either service
ReplayCheck ==
    \E id \in ReplayServices :
        \E result \in ServiceResults[config.Retries] :
            /\ Len(logs[id]) < MaxReplay
            /\ PerformCheckOf(id, result, TRUE, TRUE, TRUE)
            /\ UNCHANGED <<config, peers, chk, node, procVars>>

NextReplay == ReplayCheck

SpecReplay == InitReplay /\ [][NextReplay]_vars

NotifCount(t, kind) ==
    Cardinality({n \in DOMAIN notifications :
                    notifications[n].target = t /\ notifications[n].kind = kind})

Range(q) == {q[i] : i \in DOMAIN q}

\* DB.GetPendingNotifications: the IDs of the rows with sent = false, oldest
\* first
RECURSIVE PendingFrom(_)
PendingFrom(n) ==
    IF n > Len(notifications) THEN <<>>
    ELSE IF ~notifications[n].Sent THEN <<n>> \o PendingFrom(n + 1)
         ELSE PendingFrom(n + 1)

\* the pending rows, newest first
GetPendingNotifications_NewestFirst ==
    LET p == PendingFrom(1) IN [i \in DOMAIN p |-> p[Len(p) + 1 - i]]

GetPendingNotifications == PendingFrom(1)

\* the address ProcessNotifications hands to SendEmail for a notification row
SendTo(adminEmail, row) == adminEmail

\* a dispatcher that writes sent = true whatever SendEmail returned
MarkNotificationSent_GiveUp(row, sendOK) ==
    IF sendOK THEN [row EXCEPT !.Sent = TRUE, !.Error = Null]
              ELSE [row EXCEPT !.Sent = TRUE, !.Error = Some("smtp error")]

\* the row after MarkNotificationSent(id, true, nil) on a successful send, or
\* MarkNotificationSent(id, false, &errMsg) on a failed one
MarkNotificationSent(row, sendOK) ==
    IF sendOK THEN [row EXCEPT !.Sent = TRUE, !.Error = Null]
              ELSE [row EXCEPT !.Sent = FALSE, !.Error = Some("smtp error")]

\* the emails of one sweep: the delivered ones among `pend`, in order
RECURSIVE Mails(_, _, _)
Mails(adminEmail, pend, sendOK) ==
    IF pend = <<>> THEN <<>>
    ELSE LET n == Head(pend)
             rest == Mails(adminEmail, Tail(pend), sendOK)
         IN  IF n \in sendOK
             THEN <<[notif |-> n, to |-> SendTo(adminEmail, notifications[n])]>> \o rest
             ELSE rest

\* Service.ProcessNotifications(adminEmail).  getOK: GetPendingNotifications
\* succeeds; sendOK: the IDs whose SendEmail succeeds; markOK: the IDs whose
\* MarkNotificationSent succeeds.
ProcessNotificationsOf(adminEmail, getOK, sendOK, markOK) ==
    LET pend == GetPendingNotifications IN
    IF ~getOK \/ pend = <<>>
    THEN UNCHANGED <<notifications, outbox, swept>>
    ELSE /\ notifications' =
                [n \in DOMAIN notifications |->
                    IF n \in Range(pend) /\ n \in markOK
                    THEN MarkNotificationSent(notifications[n], n \in sendOK)
                    ELSE notifications[n]]
         /\ outbox' = outbox \o Mails(adminEmail, pend, sendOK)
         /\ swept' = [flip |-> ~swept.flip, attempted |-> pend,
                      delivered |-> Range(pend) \cap sendOK,
                      failed |-> Range(pend) \ sendOK]

\* ---------------------------------------------- specification SpecDispatch
\* Probe cycles create notifications; the dispatcher sweeps them, SendEmail
\* and the store's updates succeeding or failing.
InitDispatch ==
    /\ config = [Retries |-> 0]
    /\ StoreInit
    /\ chk = NoCheck
    /\ node = NodeNew
    /\ ProcInit

NotifyingCheck ==
    \E id \in Services :
        \E result \in ServiceResults[config.Retries] :
            /\ CyclesDone < MaxDispatchCycles
            /\ PerformCheckOf(id, result, TRUE, TRUE, TRUE)
            /\ UNCHANGED <<config, peers, chk, node, procVars>>

NotifyingPeerCheck ==
    \E id \in Peers :
        \E result \in PeerResults[config.Retries] :
            /\ CyclesDone < MaxDispatchCycles
            /\ PerformPeerCheckOf(id, result, TRUE, TRUE, TRUE)
            /\ UNCHANGED <<config, services, chk, node, procVars>>

\* one tick of the dispatcher's ticker: StartProcessing passes cfg.AdminEmail
ProcessNotifications ==
    \E getOK \in BOOLEAN :
        \E sendOK \in SUBSET Range(GetPendingNotifications) :
            \E markOK \in SUBSET Range(GetPendingNotifications) :
                /\ Len(outbox) < MaxMails
                /\ ProcessNotificationsOf(AdminEmail, getOK, sendOK, markOK)
                /\ UNCHANGED <<config, services, peers, logs, chk, node, mon, disp, fed, main>>

NextDispatch == NotifyingCheck \/ NotifyingPeerCheck \/ ProcessNotifications

SpecDispatch == InitDispatch /\ [][NextDispatch]_vars

\* ----------------------------------------------- specification SpecDeliver
\* The same with a store whose reads and updates succeed, a dispatcher that
\* keeps sweeping, and a mail server that is not down forever.
\* a sweep in which the email of notification n is accepted
Delivering(n) ==
    \E sendOK \in SUBSET Range(GetPendingNotifications) :
        /\ n \in sendOK
        /\ ProcessNotificationsOf(AdminEmail, TRUE, sendOK, Range(GetPendingNotifications))
        /\ UNCHANGED <<config, services, peers, logs, chk, node, mon, disp, fed, main>>

ProcessNotificationsReliable ==
    \E sendOK \in SUBSET Range(GetPendingNotifications) :
        /\ ProcessNotificationsOf(AdminEmail, TRUE, sendOK, Range(GetPendingNotifications))
        /\ UNCHANGED <<config, services, peers, logs, chk, node, mon, disp, fed, main>>

NextDeliver == NotifyingCheck \/ NotifyingPeerCheck \/ ProcessNotificationsReliable

SpecDeliver ==
    /\ InitDispatch
    /\ [][NextDeliver]_vars
    /\ WF_vars(ProcessNotificationsReliable)
    /\ \A n \in 1..MaxDispatchCycles : SF_vars(Delivering(n))

\* C12: every notification is eventually sent; a sweep attempts every unsent
\* notification, and a notification whose delivery failed in it stays unsent
\* with the error recorded.
C12_EventuallySent ==
    /\ \A n \in 1..MaxDispatchCycles :
          (n \in DOMAIN notifications) ~> (n \in DOMAIN notifications /\ notifications[n].Sent)
    /\ [][swept'.flip # swept.flip =>
            /\ Range(swept'.attempted) = {n \in DOMAIN notifications : ~notifications[n].Sent}
            /\ \A n \in swept'.failed :
                  ~notifications'[n].Sent /\ notifications'[n].Error # Null]_vars

\* a sweep that delivered one notification and failed on another, which stays
\* unsent with its error
C12_Witness ==
    \E n, m \in DOMAIN notifications :
        /\ n \in swept.delivered /\ notifications[n].Sent
        /\ m \in swept.failed /\ ~notifications[m].Sent /\ notifications[m].Error # Null

\* number of emails the mail server accepted for notification n
Emailed(n) == Cardinality({i \in DOMAIN outbox : outbox[i].notif = n})

\* C13 (as claimed): a notification whose email was accepted is marked sent
\* and is emailed at most once, whatever the store's updates do.
C13_EmailedAtMostOnce ==
    \A n \in DOMAIN notifications :
        /\ Emailed(n) <= 1
        /\ Emailed(n) >= 1 => notifications[n].Sent

\* C14 (as claimed): an email about a peer goes to the peer's AdminEmail, an
\* email about a service to the service's Caregiver or, when there is none,
\* to the instance-wide address.
C14_Recipient ==
    \A i \in DOMAIN outbox :
        LET t == notifications[outbox[i].notif].target
        IN  outbox[i].to =
                IF t \in Peers THEN peers[t].AdminEmail
                ELSE IF services[t].Caregiver # Null THEN services[t].Caregiver[1]
                ELSE AdminEmail

\* ------------------------------------------------- specification SpecLife
\* func main from startup to exit: the per-service goroutines and tickers of
\* the monitor, the federation and dispatcher goroutines, and the shutdown
\* sequence.  A probe is in flight between the step that begins a cycle and
\* the step that records it.
\* time.NewTicker: running, no tick in its channel C
NewTicker == [stopped |-> FALSE, C |-> 0]

\* a ticker that queues every tick
TickerSend_Queued(t) == [t EXCEPT !.C = @ + 1]

\* the runtime sends a tick on C without blocking: C buffers one tick and
\* the tick is dropped when one is already waiting
TickerSend(t) == [t EXCEPT !.C = IF @ = 0 THEN 1 ELSE @]

\* what the probes of these specifications return: the endpoint answers
\* (200, and ok for a peer) or is unreachable
LifeServiceResults ==
    {CheckService(<<r>>, 0) : r \in {TransportErr, HttpResponse(200, 7, FALSE, "")}}

LifePeerResults ==
    {CheckPeer(<<r>>, 0) : r \in {PeerTransportErr, PeerResponse(200, TRUE, "ok")}}

\* ticker.Stop(): no tick is delivered any more; a tick already in the
\* channel stays there or is discarded, depending on the Go release
TickerStop(t, drain) == [stopped |-> TRUE, C |-> IF drain THEN 0 ELSE t.C]

\* the process exists
Alive == main.pc \notin {"crashed", "exited"}

Goroutines == DOMAIN mon.goroutines

\* the monitor goroutines inside PerformCheck
InFlight(id) ==
    {g \in Goroutines : mon.goroutines[g].svc = id /\ mon.goroutines[g].pc = "check"}

RECURSIVE SumCycles(_)
SumCycles(n) == IF n = 0 THEN 0 ELSE mon.goroutines[n].cycles + SumCycles(n - 1)

\* probe cycles begun so far, recorded or not
CyclesBegun == SumCycles(Len(mon.goroutines)) + fed.cycles

\* Monitor.StartMonitoring(service): under m.mu, stops the ticker m.timers
\* holds for the service, stores a new one and spawns a goroutine that owns it
StartMonitoring(id) ==
    /\ main.pc = "running"
    /\ Len(mon.goroutines) < MaxGoroutines
    /\ \E drain \in BOOLEAN :
         LET old == mon.timers[id]
             stopped == IF old = 0 THEN mon.tickers
                        ELSE [mon.tickers EXCEPT ![old] = TickerStop(@, drain)]
             new == Len(mon.tickers) + 1
         IN mon' = [mon EXCEPT
                        !.tickers = Append(stopped, NewTicker),
                        !.timers[id] = new,
                        !.goroutines = Append(@, [svc |-> id, ticker |-> new,
                                                  pc |-> "spawned",
                                                  arg |-> services[id],
                                                  printed |-> {},
                                                  refreshed |-> TRUE,
                                                  cycles |-> 0])]
    /\ UNCHANGED <<config, services, peers, logs, notifications, chk, node,
                   outbox, swept, disp, fed, main>>

\* the interval of a running ticker of the monitor elapses
MonitorTick ==
    \E k \in DOMAIN mon.tickers :
        /\ Alive
        /\ ~mon.tickers[k].stopped
        /\ CyclesBegun < MaxLifeCycles
        /\ mon' = [mon EXCEPT !.tickers[k] = TickerSend(@)]
        /\ UNCHANGED <<config, services, peers, logs, notifications, chk, node,
                       outbox, swept, disp, fed, main>>

\* a goroutine that goes to its select without an initial check
MonBeginInitial_NoInitial(g) ==
    /\ Alive
    /\ g \in Goroutines
    /\ mon.goroutines[g].pc = "spawned"
    /\ mon' = [mon EXCEPT !.goroutines[g].pc = "select"]
    /\ UNCHANGED <<config, services, peers, logs, notifications, chk, node,
                   outbox, swept, disp, fed, main>>

\* the goroutine is scheduled and calls m.PerformCheck(svc)
MonBeginInitial(g) ==
    /\ Alive
    /\ g \in Goroutines
    /\ mon.goroutines[g].pc = "spawned"
    /\ mon' = [mon EXCEPT !.goroutines[g].pc = "check",
                          !.goroutines[g].cycles = @ + 1]
    /\ UNCHANGED <<config, services, peers, logs, notifications, chk, node,
                   outbox, swept, disp, fed, main>>

\* CheckService returns one of results and PerformCheck records it, the
\* store's UpdateService, AddLog and AddNotification succeeding or not; the
\* goroutine is back at its select
MonRecordWith(g, results, updOK, logOK, notifOK) ==
    /\ Alive
    /\ g \in Goroutines
    /\ mon.goroutines[g].pc = "check"
    /\ \E result \in results :
         /\ PerformCheckWith(mon.goroutines[g].svc, mon.goroutines[g].arg, result,
                             updOK, logOK, notifOK)
         /\ mon' = [mon EXCEPT
                      !.goroutines[g].pc = "select",
                      !.goroutines[g].printed =
                          PerformCheckPrints(mon.goroutines[g].arg, result,
                                             updOK, logOK, notifOK)]
    /\ UNCHANGED <<config, peers, chk, node, outbox, swept, disp, fed, main>>

\* a PerformCheck that goes on after a failed update
MonRecord_NotAbandoned(g, updOK, logOK, notifOK) ==
    /\ Alive
    /\ g \in Goroutines
    /\ mon.goroutines[g].pc = "check"
    /\ \E result \in LifeServiceResults :
         /\ PerformCheckWith(mon.goroutines[g].svc, mon.goroutines[g].arg, result,
                             TRUE, logOK, notifOK)
         /\ mon' = [mon EXCEPT
                      !.goroutines[g].pc = "select",
                      !.goroutines[g].printed =
                          IF updOK THEN {} ELSE {"update"}]
    /\ UNCHANGED <<config, peers, chk, node, outbox, swept, disp, fed, main>>

\* the record step of the lifecycle specifications: the endpoint answers 200
\* or is unreachable
MonRecord(g, updOK, logOK, notifOK) ==
    MonRecordWith(g, LifeServiceResults, updOK, logOK, notifOK)

\* the record step with a store whose writes succeed
MonFinishCheck(g) == MonRecord(g, TRUE, TRUE, TRUE)

\* a goroutine that keeps the struct it was started with
Refreshed_Captured(g) == mon.goroutines[g].arg

\* refreshed, err := m.db.GetService(int(svc.ID)): the stored row
Refreshed(g) == services[mon.goroutines[g].svc]

\* what GetService hands the goroutine: the row, no record (nil, nil) or an
\* error
GetServiceOutcomes == {"row", "none", "error"}

\* a goroutine that probes with the struct it has when the refresh gave no row
TickBranch_ProbeAnyway(got) == "check"

\* if err != nil { continue }; if refreshed != nil { m.PerformCheck(refreshed) }
TickBranch(got) == IF got = "row" THEN "check" ELSE "select"

\* select takes case <-ticker.C: GetService, then PerformCheck(refreshed);
\* a failed GetService continues the loop.  refreshed tells whether the
\* goroutine's variable refreshed is non-nil
MonTakeTick(g) ==
    /\ Alive
    /\ g \in Goroutines
    /\ mon.goroutines[g].pc = "select"
    /\ mon.tickers[mon.goroutines[g].ticker].C > 0
    /\ CyclesBegun < MaxLifeCycles
    /\ \E got \in GetServiceOutcomes :
         mon' = [mon EXCEPT
                    !.tickers[mon.goroutines[g].ticker].C = @ - 1,
                    !.goroutines[g].refreshed = (got = "row"),
                    !.goroutines[g].pc = TickBranch(got),
                    !.goroutines[g].arg = IF got = "row" THEN Refreshed(g) ELSE @,
                    !.goroutines[g].cycles = IF TickBranch(got) = "check" THEN @ + 1 ELSE @]
    /\ UNCHANGED <<config, services, peers, logs, notifications, chk, node,
                   outbox, swept, disp, fed, main>>

\* select takes case <-m.quit: the goroutine returns (wg.Done)
MonTakeQuit(g) ==
    /\ Alive
    /\ g \in Goroutines
    /\ mon.goroutines[g].pc = "select"
    /\ mon.quit
    /\ mon' = [mon EXCEPT !.goroutines[g].pc = "done"]
    /\ UNCHANGED <<config, services, peers, logs, notifications, chk, node,
                   outbox, swept, disp, fed, main>>

\* ---- federation goroutine
\* Service.StartMonitoring (federation): main calls it once, after the
\* services are started
FedStartMonitoring ==
    /\ main.pc = "running"
    /\ \A id \in Services : mon.timers[id] # 0
    /\ fed.pc = "none"
    /\ fed' = [fed EXCEPT !.ticker = "running", !.pc = "spawned"]
    /\ UNCHANGED <<config, services, peers, logs, notifications, chk, node,
                   outbox, swept, mon, disp, main>>

\* a sweep that checks the first peer of the list only
PeerRows_FirstOnly(S) ==
    IF S = {} THEN <<>>
    ELSE LET id == CHOOSE x \in S : TRUE
         IN <<[id |-> id, peer |-> peers[id]]>>

\* the rows GetAllPeers returns
RECURSIVE PeerRows(_)
PeerRows(S) ==
    IF S = {} THEN <<>>
    ELSE LET id == CHOOSE x \in S : TRUE
         IN <<[id |-> id, peer |-> peers[id]]>> \o PeerRows(S \ {id})

\* checkAllPeers up to its first CheckPeer: the peers to visit, none when
\* GetAllPeers fails, which it prints
CheckAllPeersBegin(getOK) ==
    LET queue == IF getOK THEN PeerRows(DOMAIN peers) ELSE <<>>
    IN [fed EXCEPT !.queue = queue,
                   !.printed = IF getOK THEN @ ELSE {"peers"},
                   !.pc = IF queue = <<>> THEN "select" ELSE "check",
                   !.cycles = @ + Len(queue)]

FederationTick ==
    /\ Alive
    /\ fed.ticker = "running"
    /\ ~fed.tick
    /\ CyclesBegun < MaxLifeCycles
    /\ fed' = [fed EXCEPT !.tick = TRUE]
    /\ UNCHANGED <<config, services, peers, logs, notifications, chk, node,
                   outbox, swept, mon, disp, main>>

\* the goroutine is scheduled and calls s.checkAllPeers()
FedBeginInitial ==
    /\ Alive
    /\ fed.pc = "spawned"
    /\ \E getOK \in BOOLEAN : fed' = CheckAllPeersBegin(getOK)
    /\ UNCHANGED <<config, services, peers, logs, notifications, chk, node,
                   outbox, swept, mon, disp, main>>

\* CheckPeer returns and PerformPeerCheck records the result; the loop goes
\* to the next peer
FedRecord(updOK, logOK, notifOK) ==
    /\ Alive
    /\ fed.pc = "check"
    /\ \E result \in LifePeerResults :
         /\ PerformPeerCheckWith(Head(fed.queue).id, Head(fed.queue).peer, result,
                                 updOK, logOK, notifOK)
         /\ fed' = [fed EXCEPT
                      !.queue = Tail(@),
                      !.pc = IF Tail(fed.queue) = <<>> THEN "select" ELSE "check",
                      !.printed = PerformPeerCheckPrints(Head(fed.queue).peer, result,
                                                         updOK, logOK, notifOK)]
    /\ UNCHANGED <<config, services, chk, node, outbox, swept, mon, disp, main>>

\* the same with a store whose writes succeed
FedFinishCheck == FedRecord(TRUE, TRUE, TRUE)

\* select takes case <-s.ticker.C
FedTakeTick ==
    /\ Alive
    /\ fed.pc = "select"
    /\ fed.tick
    /\ CyclesBegun < MaxLifeCycles
    /\ \E getOK \in BOOLEAN :
         fed' = [CheckAllPeersBegin(getOK) EXCEPT !.tick = FALSE]
    /\ UNCHANGED <<config, services, peers, logs, notifications, chk, node,
                   outbox, swept, mon, disp, main>>

\* select takes case <-s.quit
FedTakeQuit ==
    /\ Alive
    /\ fed.pc = "select"
    /\ fed.quit
    /\ fed' = [fed EXCEPT !.pc = "done"]
    /\ UNCHANGED <<config, services, peers, logs, notifications, chk, node,
                   outbox, swept, mon, disp, main>>

\* ---- dispatcher goroutine
\* Service.StartProcessing (notification): main calls it once, after the
\* federation service is started; the goroutine goes straight to its select
StartProcessing ==
    /\ main.pc = "running"
    /\ fed.pc # "none"
    /\ disp.pc = "none"
    /\ disp' = [disp EXCEPT !.ticker = "running", !.pc = "select"]
    /\ UNCHANGED <<config, services, peers, logs, notifications, chk, node,
                   outbox, swept, mon, fed, main>>

DispatcherTick ==
    /\ Alive
    /\ disp.ticker = "running"
    /\ ~disp.tick
    /\ Len(outbox) < MaxMails
    /\ disp' = [disp EXCEPT !.tick = TRUE]
    /\ UNCHANGED <<config, services, peers, logs, notifications, chk, node,
                   outbox, swept, mon, fed, main>>

\* select takes case <-s.ticker.C and calls ProcessNotifications
DispTakeTick ==
    /\ Alive
    /\ disp.pc = "select"
    /\ disp.tick
    /\ Len(outbox) < MaxMails
    /\ disp' = [disp EXCEPT !.tick = FALSE, !.pc = "sweep", !.since = CyclesBegun]
    /\ UNCHANGED <<config, services, peers, logs, notifications, chk, node,
                   outbox, swept, mon, fed, main>>

\* ProcessNotifications returns: the mail server has accepted every email or
\* none, the store's reads and updates have succeeded
DispFinishSweep ==
    /\ Alive
    /\ disp.pc = "sweep"
    /\ \E sendOK \in {{}, Range(GetPendingNotifications)} :
         ProcessNotificationsOf(AdminEmail, TRUE, sendOK, Range(GetPendingNotifications))
    /\ disp' = [disp EXCEPT !.pc = "select", !.since = 0]
    /\ UNCHANGED <<config, services, peers, logs, chk, node, mon, fed, main>>

\* select takes case <-s.quit
DispTakeQuit ==
    /\ Alive
    /\ disp.pc = "select"
    /\ disp.quit
    /\ disp' = [disp EXCEPT !.pc = "done"]
    /\ UNCHANGED <<config, services, peers, logs, notifications, chk, node,
                   outbox, swept, mon, fed, main>>

\* ---- func main after startup
\* the function main is in
Callee ==
    IF main.call \in DOMAIN ShutdownSequence THEN ShutdownSequence[main.call]
    ELSE "none"

\* the call returns and main makes the next one
Return == [call |-> main.call + 1, pc |-> "call"]

\* the caller of StartMonitoring calls StopAll
CallStopAll ==
    /\ main.pc = "running"
    /\ \A id \in Services : mon.timers[id] # 0
    /\ main' = [call |-> 1, pc |-> "call"]
    /\ UNCHANGED <<config, services, peers, logs, notifications, chk, node,
                   outbox, swept, mon, disp, fed>>

\* <-sigChan: the interrupt arrives once everything is started, and main
\* begins the shutdown sequence
Signal ==
    /\ fed.pc # "none"
    /\ disp.pc # "none"
    /\ CallStopAll

\* StopAll: m.mu.Lock(); close(m.quit)
StopAllClose ==
    /\ Callee = "StopAll"
    /\ main.pc = "call"
    /\ mon' = [mon EXCEPT !.quit = TRUE]
    /\ main' = [main EXCEPT !.pc = "stop"]
    /\ UNCHANGED <<config, services, peers, logs, notifications, chk, node,
                   outbox, swept, disp, fed>>

\* StopAll: ticker.Stop() for the tickers in m.timers
StopAllTickers ==
    /\ Callee = "StopAll"
    /\ main.pc = "stop"
    /\ \E drain \in BOOLEAN :
         mon' = [mon EXCEPT !.tickers =
                    [k \in DOMAIN mon.tickers |->
                        IF \E id \in Services : mon.timers[id] = k
                        THEN TickerStop(mon.tickers[k], drain)
                        ELSE mon.tickers[k]]]
    /\ main' = [main EXCEPT !.pc = "wait"]
    /\ UNCHANGED <<config, services, peers, logs, notifications, chk, node,
                   outbox, swept, disp, fed>>

\* a wait that does not wait
WaitGroupDone_NoWait == TRUE

\* m.wg.Wait() returns: every goroutine StartMonitoring spawned has returned
WaitGroupDone == \A g \in Goroutines : mon.goroutines[g].pc = "done"

\* StopAll: m.wg.Wait(), then return
StopAllWait ==
    /\ Callee = "StopAll"
    /\ main.pc = "wait"
    /\ WaitGroupDone
    /\ main' = Return
    /\ UNCHANGED <<config, services, peers, logs, notifications, chk, node,
                   outbox, swept, mon, disp, fed>>

\* if s.ticker != nil { s.ticker.Stop() }
ServiceTickerStop(s, drain) ==
    [s EXCEPT !.ticker = IF @ = "nil" THEN "nil" ELSE "stopped",
              !.tick = @ /\ ~drain]

\* a wait that does not wait
ServiceWait_NoWait(s) == TRUE

\* s.wg.Wait() returns: the goroutine, if one was started, has returned
ServiceWait(s) == s.pc \in {"none", "done"}

\* StopProcessing, called by main and again through Close: the ticker
StopProcessingTicker ==
    /\ Callee \in {"StopProcessing", "Close"}
    /\ main.pc = "call"
    /\ \E drain \in BOOLEAN : disp' = ServiceTickerStop(disp, drain)
    /\ main' = [main EXCEPT !.pc = "close"]
    /\ UNCHANGED <<config, services, peers, logs, notifications, chk, node,
                   outbox, swept, mon, fed>>

\* StopProcessing: close(s.quit); closing a closed channel panics
StopProcessingClose ==
    /\ Callee \in {"StopProcessing", "Close"}
    /\ main.pc = "close"
    /\ IF disp.quit
       THEN /\ main' = [main EXCEPT !.pc = "panic"]
            /\ UNCHANGED disp
       ELSE /\ disp' = [disp EXCEPT !.quit = TRUE]
            /\ main' = [main EXCEPT !.pc = "wait"]
    /\ UNCHANGED <<config, services, peers, logs, notifications, chk, node,
                   outbox, swept, mon, fed>>

\* StopProcessing: s.wg.Wait(), then return
StopProcessingWait ==
    /\ Callee \in {"StopProcessing", "Close"}
    /\ main.pc = "wait"
    /\ ServiceWait(disp)
    /\ main' = Return
    /\ UNCHANGED <<config, services, peers, logs, notifications, chk, node,
                   outbox, swept, mon, disp, fed>>

\* StopMonitoring (federation): the ticker
StopMonitoringTicker ==
    /\ Callee = "StopMonitoring"
    /\ main.pc = "call"
    /\ \E drain \in BOOLEAN : fed' = ServiceTickerStop(fed, drain)
    /\ main' = [main EXCEPT !.pc = "close"]
    /\ UNCHANGED <<config, services, peers, logs, notifications, chk, node,
                   outbox, swept, mon, disp>>

\* StopMonitoring: close(s.quit)
StopMonitoringClose ==
    /\ Callee = "StopMonitoring"
    /\ main.pc = "close"
    /\ IF fed.quit
       THEN /\ main' = [main EXCEPT !.pc = "panic"]
            /\ UNCHANGED fed
       ELSE /\ fed' = [fed EXCEPT !.quit = TRUE]
            /\ main' = [main EXCEPT !.pc = "wait"]
    /\ UNCHANGED <<config, services, peers, logs, notifications, chk, node,
                   outbox, swept, mon, disp>>

\* StopMonitoring: s.wg.Wait(), then return
StopMonitoringWait ==
    /\ Callee = "StopMonitoring"
    /\ main.pc = "wait"
    /\ ServiceWait(fed)
    /\ main' = Return
    /\ UNCHANGED <<config, services, peers, logs, notifications, chk, node,
                   outbox, swept, mon, disp, fed>>

\* httpServer.Stop()
HttpServerStop ==
    /\ Callee = "Stop"
    /\ main.pc = "call"
    /\ main' = Return
    /\ UNCHANGED <<config, services, peers, logs, notifications, chk, node,
                   outbox, swept, mon, disp, fed>>

\* db.Close(): main's last call, and main's deferred call when it panics;
\* the process ends after either
DbClose ==
    /\ IF main.pc = "panic" THEN TRUE
       ELSE Callee = "db.Close" /\ main.pc = "call"
    /\ main' = [main EXCEPT !.pc = IF @ = "panic" THEN "crashed" ELSE "exited"]
    /\ UNCHANGED <<config, services, peers, logs, notifications, chk, node,
                   outbox, swept, mon, disp, fed>>

\* main's loop over the configured services: one StartMonitoring for each
StartServices ==
    \E id \in Services :
        /\ mon.timers[id] = 0
        /\ StartMonitoring(id)

InitLife ==
    /\ config = [Retries |-> 0]
    /\ StoreInit
    /\ chk = NoCheck
    /\ node = NodeNew
    /\ ProcInit

\* a monitor goroutine that stands still while a notification sweep runs
MonProgress_AfterSweep(g) ==
    /\ disp.pc # "sweep"
    /\ (MonBeginInitial(g) \/ MonFinishCheck(g) \/ MonTakeQuit(g))

\* what a monitor goroutine does without waiting for a tick
MonProgress(g) == MonBeginInitial(g) \/ MonFinishCheck(g) \/ MonTakeQuit(g)

FedProgress == FedBeginInitial \/ FedFinishCheck \/ FedTakeQuit

DispProgress == DispFinishSweep \/ DispTakeQuit

Shutdown ==
    \/ StopAllClose \/ StopAllTickers \/ StopAllWait
    \/ StopProcessingTicker \/ StopProcessingClose \/ StopProcessingWait
    \/ StopMonitoringTicker \/ StopMonitoringClose \/ StopMonitoringWait
    \/ HttpServerStop
    \/ DbClose

NextLife ==
    \/ StartServices
    \/ FedStartMonitoring
    \/ StartProcessing
    \/ MonitorTick \/ FederationTick \/ DispatcherTick
    \/ \E g \in 1..MaxGoroutines : MonProgress(g) \/ MonTakeTick(g)
    \/ FedProgress \/ FedTakeTick
    \/ DispProgress \/ DispTakeTick
    \/ Signal
    \/ Shutdown

\* every started probe and sweep returns, every runnable goroutine runs, and
\* main goes on once the signal has arrived
SpecLife ==
    /\ InitLife
    /\ [][NextLife]_vars
    /\ \A g \in 1..MaxGoroutines : WF_vars(MonProgress(g))
    /\ WF_vars(FedProgress)
    /\ WF_vars(DispProgress)
    /\ WF_vars(Shutdown)

\* -------------------------------------------- specification SpecMonitor
\* The Monitor alone: its caller starts the services, some of them again,
\* and then calls StopAll.
StopAll == StopAllClose \/ StopAllTickers \/ StopAllWait

NextMonitor ==
    \/ \E id \in Services : StartMonitoring(id)
    \/ MonitorTick
    \/ \E g \in 1..MaxGoroutines : MonProgress(g) \/ MonTakeTick(g)
    \/ CallStopAll
    \/ StopAll

SpecMonitor ==
    /\ InitLife
    /\ [][NextMonitor]_vars
    /\ \A g \in 1..MaxGoroutines : WF_vars(MonProgress(g))
    /\ WF_vars(StopAll)

\* ---- properties of SpecLife
StopAllReturned == main.call > 1

\* C15: at every moment at most one probe-and-record cycle of a service is
\* in flight, also when StartMonitoring is called again for a service whose
\* previous goroutine is in the middle of a cycle
C15_OneCycleInFlight ==
    \A id \in Services : Cardinality(InFlight(id)) <= 1

\* the goroutines that have entered a cycle in this step
Entering ==
    {g \in Goroutines : mon.goroutines[g].pc = "select" /\ mon'.goroutines[g].pc = "check"}

\* no goroutine of the monitor is running
NoMonitorRunning == \A g \in Goroutines : mon.goroutines[g].pc = "done"

\* what the monitor writes
MonitorWrites ==
    <<services, [id \in Services |-> logs[id]],
      SelectSeq(notifications, LAMBDA n : n.target \in Services)>>

\* C16: once StopAll has returned no monitor goroutine is running and the
\* monitor writes no service update, log entry or notification any more; and
\* a StopAll that is called returns
C16_StopAllDrains ==
    /\ [](StopAllReturned => NoMonitorRunning)
    /\ [][StopAllReturned => MonitorWrites' = MonitorWrites]_vars
    /\ (Callee = "StopAll") ~> StopAllReturned

\* StopAll has returned after two goroutines recorded their cycles
C16_Witness ==
    /\ StopAllReturned
    /\ Len(mon.goroutines) >= 2
    /\ CyclesDone >= 2

\* C18: once StopAll has closed the quit channel, no goroutine at its select
\* acts on a tick
C18_NoCycleAfterQuit ==
    [][mon.quit => Entering = {}]_vars

StopProcessingReturned == main.call > 2

StopMonitoringReturned == main.call > 3

\* what the federation service writes, apart from notifications
FederationWrites == <<peers, [id \in Peers |-> logs[id]]>>

\* C19: after StopProcessing has returned the dispatcher goroutine is gone
\* and no notification is swept or emailed; after StopMonitoring has returned
\* the federation goroutine is gone and no peer is checked; and both calls,
\* once made, return
C19_StoppedServicesStayStopped ==
    /\ [](StopProcessingReturned => disp.pc = "done")
    /\ [](StopMonitoringReturned => fed.pc = "done")
    /\ [][StopProcessingReturned =>
            /\ outbox' = outbox
            /\ swept' = swept
            /\ \A n \in DOMAIN notifications : notifications'[n] = notifications[n]]_vars
    /\ [][StopMonitoringReturned => FederationWrites' = FederationWrites]_vars
    /\ (Callee = "StopProcessing") ~> StopProcessingReturned
    /\ (Callee = "StopMonitoring") ~> StopMonitoringReturned

\* both have returned after the dispatcher emailed a notification and the
\* federation service recorded a peer check
C19_Witness ==
    /\ StopMonitoringReturned
    /\ outbox # <<>>
    /\ \E id \in Peers : logs[id] # <<>>

\* C20: the shutdown sequence does not panic
C20_ShutdownWithoutPanic == main.pc \notin {"panic", "crashed"}

\* ------------------------------------------------- specification SpecNode
\* The Node backend's checkService.  scheduleServiceCheck and checkServiceNow
\* start it without waiting for an earlier call, so calls interleave at
\* their awaits.
NodeUrls == {"https://a.example"}

Calls == DOMAIN node.calls

\* a call is made: the request is sent
NodeCheckService(url) ==
    /\ Len(node.calls) < MaxNodeChecks
    /\ node' = [node EXCEPT
                    !.calls = Append(@, [url |-> url, pc |-> "get", isUp |-> FALSE,
                                         lastChecked |-> 0]),
                    !.overlapped = @ \/ \E c \in Calls : node.calls[c].pc # "returned"]
    /\ UNCHANGED <<config, services, peers, logs, notifications, chk, procVars>>

\* axios.get returns or throws: isUp is statusCode >= 200 && statusCode < 400
\* (false when it throws); the status object takes new Date()
NodeResponse(c) ==
    /\ c \in Calls
    /\ node.calls[c].pc = "get"
    /\ \E isUp \in BOOLEAN :
         node' = [node EXCEPT !.now = @ + 1,
                              !.calls[c] = [@ EXCEPT !.pc = "addStatusCheck",
                                                     !.isUp = isUp,
                                                     !.lastChecked = node.now]]
    /\ UNCHANGED <<config, services, peers, logs, notifications, chk, procVars>>

\* db.addStatusCheck(status): INSERT INTO service_status
NodeAddStatusCheck(c) ==
    /\ c \in Calls
    /\ node.calls[c].pc = "addStatusCheck"
    /\ node' = [node EXCEPT
                    !.service_status =
                        Append(@, [call |-> c, url |-> node.calls[c].url,
                                   isUp |-> node.calls[c].isUp,
                                   lastChecked |-> node.calls[c].lastChecked]),
                    !.calls[c].pc = "getLatestStatus"]
    /\ UNCHANGED <<config, services, peers, logs, notifications, chk, procVars>>

\* db.getLatestStatus(url): SELECT ... WHERE url = ? ORDER BY last_checked
\* DESC LIMIT 1, as a set of at most one row
GetLatestStatus(url) ==
    {r \in Range(node.service_status) :
        /\ r.url = url
        /\ \A q \in Range(node.service_status) :
              q.url = url => q.lastChecked <= r.lastChecked}

\* if (previousStatus && previousStatus.isUp !== isUp)
StatusChanged(previousStatus, isUp) == previousStatus.isUp # isUp

\* the rest of checkService: getLatestStatus, then sendNotification when the
\* status has changed
NodeNotify(c) ==
    /\ c \in Calls
    /\ node.calls[c].pc = "getLatestStatus"
    /\ \E previousStatus \in GetLatestStatus(node.calls[c].url) :
         node' = [node EXCEPT
                    !.sent = IF StatusChanged(previousStatus, node.calls[c].isUp)
                             THEN Append(@, [call |-> c, url |-> node.calls[c].url,
                                             isUp |-> node.calls[c].isUp])
                             ELSE @,
                    !.calls[c].pc = "returned"]
    /\ UNCHANGED <<config, services, peers, logs, notifications, chk, procVars>>

NextNode ==
    \/ \E url \in NodeUrls : NodeCheckService(url)
    \/ \E c \in 1..MaxNodeChecks :
          NodeResponse(c) \/ NodeAddStatusCheck(c) \/ NodeNotify(c)

SpecNode == InitLife /\ [][NextNode]_vars

\* the rows of a URL in insertion order
StatusHistory(url) == SelectSeq(node.service_status, LAMBDA r : r.url = url)

\* C17: when the checks of a URL follow one another, a checkService call
\* that has returned sent a notification exactly when its up/down result
\* differs from the result of the previous check of the same URL
C17_NotifiesOnEveryChange ==
    \A url \in NodeUrls :
        LET h == StatusHistory(url) IN
        \A i \in DOMAIN h :
            (~node.overlapped /\ node.calls[h[i].call].pc = "returned") =>
                ((\E m \in Range(node.sent) : m.call = h[i].call)
                    <=> (i > 1 /\ h[i].isUp # h[i - 1].isUp))

\* the goroutines that have recorded a cycle in this step
Finishing ==
    {g \in Goroutines : mon.goroutines[g].pc = "check" /\ mon'.goroutines[g].pc = "select"}

\* C21: a ticked cycle works on the row as stored at the moment of the tick,
\* and its failure count and its notification are computed from that row,
\* not from the struct StartMonitoring was called with
C21_TickReadsStoredRow ==
    /\ [][\A g \in Entering :
            mon'.goroutines[g].arg = services[mon.goroutines[g].svc]]_vars
    /\ [][\A g \in Finishing :
            LET id == mon.goroutines[g].svc
                from == mon.goroutines[g].arg
            IN /\ services'[id].ConsecutiveFailures =
                    IF services'[id].Status = "down"
                    THEN from.ConsecutiveFailures + 1 ELSE 0
               /\ (Len(notifications') > Len(notifications))
                    <=> (from.Status # "up" /\ services'[id].Status = "up")]_vars

\* a ticked cycle is in flight on a row that an earlier cycle has written
C21_Witness ==
    \E g \in Goroutines :
        /\ mon.goroutines[g].pc = "check"
        /\ mon.goroutines[g].arg.Status # "unknown"

\* C22: however long a probe takes, a service has at most one cycle in
\* flight and its ticker holds at most one overdue tick: the ticks that
\* arrive while one is waiting are dropped
C22_OverdueTicksDropped ==
    /\ \A id \in Services : Cardinality(InFlight(id)) <= 1
    /\ \A k \in DOMAIN mon.tickers : mon.tickers[k].C <= 1

\* a probe is still in flight and a tick of its running ticker is waiting
C22_Witness ==
    \E g \in Goroutines :
        /\ mon.goroutines[g].pc = "check"
        /\ ~mon.tickers[mon.goroutines[g].ticker].stopped
        /\ mon.tickers[mon.goroutines[g].ticker].C = 1

\* C23: the goroutine StartMonitoring spawns begins a probe cycle as its
\* first step, without a tick, and every later cycle takes one tick; the
\* federation goroutine's first step is a sweep of all peers (of none when
\* GetAllPeers fails), without a tick
C23_ImmediateFirstCheck ==
    /\ \A g \in 1..MaxGoroutines :
          (g \in Goroutines /\ mon.goroutines[g].pc = "spawned")
              ~> (g \in Goroutines /\ mon.goroutines[g].pc = "check")
    /\ [][\A g \in Goroutines :
            (mon.goroutines[g].pc = "spawned" /\ mon'.goroutines[g].pc # "spawned") =>
                /\ mon'.goroutines[g].pc = "check"
                /\ mon'.tickers = mon.tickers]_vars
    /\ [][\A g \in Entering :
            mon'.tickers[mon.goroutines[g].ticker].C
                = mon.tickers[mon.goroutines[g].ticker].C - 1]_vars
    /\ [][(fed.pc = "spawned" /\ fed'.pc # "spawned") =>
            /\ fed'.tick = fed.tick
            /\ \/ fed'.pc = "check" /\ {q.id : q \in Range(fed'.queue)} = Peers
               \/ fed'.pc = "select" /\ fed'.queue = <<>>]_vars
    /\ [][(fed.pc = "select" /\ fed'.pc = "check") => (fed.tick /\ ~fed'.tick)]_vars

\* the first cycle of a service and the first sweep of the peers are in
\* flight and no tick has arrived
C23_Witness ==
    /\ \E g \in Goroutines :
          /\ mon.goroutines[g].pc = "check"
          /\ logs[mon.goroutines[g].svc] = <<>>
          /\ mon.tickers[mon.goroutines[g].ticker].C = 0
    /\ fed.pc = "check"
    /\ ~fed.tick
    /\ \A id \in Peers : logs[id] = <<>>

\* ----------------------------------------------- specification SpecFaulty
\* The goroutines of the monitor and of the federation service with a store
\* whose writes may fail.
MonFinishCheckFaulty(g) ==
    \E updOK, logOK, notifOK \in BOOLEAN :
        /\ g \in Goroutines
        /\ MonRecord(g, updOK, logOK, notifOK)

FedFinishCheckFaulty ==
    \E updOK, logOK, notifOK \in BOOLEAN :
        /\ fed.queue # <<>>
        /\ FedRecord(updOK, logOK, notifOK)

NextFaulty ==
    \/ StartServices
    \/ FedStartMonitoring
    \/ MonitorTick \/ FederationTick
    \/ \E g \in 1..MaxGoroutines :
          MonBeginInitial(g) \/ MonFinishCheckFaulty(g) \/ MonTakeTick(g)
    \/ FedBeginInitial \/ FedFinishCheckFaulty \/ FedTakeTick

SpecFaulty == InitLife /\ [][NextFaulty]_vars

\* the federation goroutine has recorded a peer check in this step
FedFinishing == fed.pc = "check" /\ Len(fed'.queue) < Len(fed.queue)

\* C24: a cycle whose target update fails writes nothing (the row, the logs
\* and the notifications are as before) and leaves the goroutine at its
\* select; the cycle a later tick starts works on the stored row
C24_FailedUpdateAbandonsCycle ==
    /\ [][\A g \in Finishing :
            "update" \in mon'.goroutines[g].printed =>
                /\ services' = services
                /\ logs' = logs
                /\ notifications' = notifications]_vars
    /\ [][(FedFinishing /\ "update" \in fed'.printed) =>
                /\ peers' = peers
                /\ logs' = logs
                /\ notifications' = notifications
                /\ fed'.pc \in {"check", "select"}]_vars
    /\ [][\A g \in Entering :
            mon'.goroutines[g].arg = services[mon.goroutines[g].svc]]_vars

\* a cycle started by a tick is in flight after a cycle whose update failed
C24_Witness ==
    \E g \in Goroutines :
        /\ mon.goroutines[g].pc = "check"
        /\ "update" \in mon.goroutines[g].printed

\* C25: a cycle that persisted the update of a service going from down to
\* up ends with the UP notification of that cycle in the store
C25_NotificationWithStatus ==
    [][\A g \in Finishing :
        LET id == mon.goroutines[g].svc IN
        (/\ "update" \notin mon'.goroutines[g].printed
         /\ mon.goroutines[g].arg.Status = "down"
         /\ services'[id].Status = "up")
            => /\ Len(notifications') = Len(notifications) + 1
               /\ notifications'[Len(notifications')].target = id
               /\ notifications'[Len(notifications')].kind = "UP"]_vars

\* C26: a cycle that persisted its update appends exactly one log entry,
\* which carries the new status, and leaves the earlier entries as they were
C26_OneLogEntryPerCycle ==
    [][\A g \in Finishing :
        LET id == mon.goroutines[g].svc IN
        "update" \notin mon'.goroutines[g].printed
            => /\ Len(logs'[id]) = Len(logs[id]) + 1
               /\ SubSeq(logs'[id], 1, Len(logs[id])) = logs[id]
               /\ logs'[id][Len(logs'[id])].Status = services'[id].Status]_vars

\* the notifications of the emails the mail server accepted in this step
NewMails ==
    [i \in 1..(Len(outbox') - Len(outbox)) |-> outbox'[Len(outbox) + i].notif]

\* C27: a sweep attempts every unsent notification, in creation order, and
\* goes on after a delivery failure: each attempted notification is either
\* delivered or failed, and the accepted emails are the delivered ones in
\* creation order
C27_SweepInCreationOrder ==
    [][swept'.flip # swept.flip =>
        LET a == swept'.attempted IN
        /\ Range(a) = {n \in DOMAIN notifications : ~notifications[n].Sent}
        /\ \A i, j \in DOMAIN a : i < j => a[i] < a[j]
        /\ swept'.delivered \cup swept'.failed = Range(a)
        /\ NewMails = SelectSeq(a, LAMBDA n : n \in swept'.delivered)]_vars

\* a sweep in which an older notification failed and a newer one was
\* delivered
C27_Witness ==
    \E n \in swept.failed : \E m \in swept.delivered :
        /\ n < m
        /\ \E i \in DOMAIN outbox : outbox[i].notif = m

\* C28: a notification is created unsent; a sent notification stays sent; no
\* notification is deleted or has its target, message or creation time
\* changed
C28_SentOnlyFalseToTrue ==
    [][/\ Len(notifications') >= Len(notifications)
       /\ \A n \in DOMAIN notifications :
             /\ notifications[n].Sent => notifications'[n].Sent
             /\ notifications'[n].target = notifications[n].target
             /\ notifications'[n].kind = notifications[n].kind
             /\ notifications'[n].cycle = notifications[n].cycle
       /\ \A n \in DOMAIN notifications' \ DOMAIN notifications :
             ~notifications'[n].Sent]_vars

\* a sent notification has been left alone by a later sweep that recorded a
\* delivery failure
C28_Witness ==
    \E n \in DOMAIN notifications :
        /\ notifications[n].Sent
        /\ n \notin Range(swept.attempted)
        /\ swept.failed # {}

\* ---------------------------------------------- specification SpecStalled
\* The running program with a mail server that may never answer: a sweep
\* that has begun need not return, and main need not be signalled.
SpecStalled ==
    /\ InitLife
    /\ [][NextLife]_vars
    /\ \A g \in 1..MaxGoroutines : WF_vars(MonProgress(g))
    /\ WF_vars(FedProgress)

\* a notification sweep has begun and has not returned
SweepBlocked == disp.pc = "sweep"

\* C29: the goroutines of the monitor and of the federation service never
\* wait for the dispatcher: while a sweep has not returned each of them can
\* take its next step (begin its first cycle, take a pending tick, record a
\* cycle), and every cycle that is due or begun is begun and recorded even
\* when the sweep never returns
C29_SchedulerNeverWaitsForDispatcher ==
    /\ [](SweepBlocked =>
            /\ \A g \in Goroutines :
                  /\ mon.goroutines[g].pc = "spawned" => ENABLED MonBeginInitial(g)
                  /\ mon.goroutines[g].pc = "check" => ENABLED MonFinishCheck(g)
                  /\ (/\ mon.goroutines[g].pc = "select"
                      /\ mon.tickers[mon.goroutines[g].ticker].C > 0
                      /\ CyclesBegun < MaxLifeCycles) => ENABLED MonTakeTick(g)
            /\ fed.pc = "spawned" => ENABLED FedBeginInitial
            /\ fed.pc = "check" => ENABLED FedFinishCheck
            /\ (fed.pc = "select" /\ fed.tick /\ CyclesBegun < MaxLifeCycles)
                  => ENABLED FedTakeTick)
    /\ \A g \in 1..MaxGoroutines :
          /\ (g \in Goroutines /\ mon.goroutines[g].pc = "spawned")
                ~> (g \in Goroutines /\ mon.goroutines[g].pc = "check")
          /\ (g \in Goroutines /\ mon.goroutines[g].pc = "check")
                ~> (g \in Goroutines /\ mon.goroutines[g].pc = "select")
    /\ (fed.pc = "spawned") ~> (fed.pc # "spawned")
    /\ (fed.pc = "check") ~> (fed.pc = "select")

\* a sweep has not returned, and a probe cycle begun after the sweep began
\* has been recorded
C29_Witness ==
    /\ SweepBlocked
    /\ CyclesBegun > disp.since
    /\ CyclesDone > disp.since

\* ------------------------------------------------ specification SpecFrame
\* Two services and a peer probed by their own goroutines, and the
\* dispatcher sweeping with a mail server that accepts every email of a sweep
\* or none.  A service answers with a titled page or is unreachable.
FrameServiceResults ==
    {CheckService(<<r>>, 0) : r \in {TransportErr, HttpResponse(200, 7, TRUE, "Home")}}

FrameCheck ==
    \E id \in ReplayServices :
        \E result \in FrameServiceResults :
            /\ SumLen(DOMAIN logs) < MaxDispatchCycles
            /\ PerformCheckOf(id, result, TRUE, TRUE, TRUE)
            /\ UNCHANGED <<config, peers, chk, node, procVars>>

FramePeerCheck ==
    \E id \in Peers :
        \E result \in LifePeerResults :
            /\ SumLen(DOMAIN logs) < MaxDispatchCycles
            /\ PerformPeerCheckOf(id, result, TRUE, TRUE, TRUE)
            /\ UNCHANGED <<config, services, chk, node, procVars>>

InitFrame ==
    /\ config = [Retries |-> 0]
    /\ services = [id \in ReplayServices |-> AddService]
    /\ peers = [id \in Peers |-> AddPeer(id)]
    /\ logs = [t \in ReplayServices \cup Peers |-> <<>>]
    /\ notifications = <<>>
    /\ chk = NoCheck
    /\ node = NodeNew
    /\ ProcInit

FrameSweep ==
    \E sendOK \in {{}, Range(GetPendingNotifications)} :
        /\ Len(outbox) < MaxMails
        /\ ProcessNotificationsOf(AdminEmail, TRUE, sendOK, Range(GetPendingNotifications))
        /\ UNCHANGED <<config, services, peers, logs, chk, node, mon, disp, fed, main>>

NextFrame == FrameCheck \/ FramePeerCheck \/ FrameSweep

SpecFrame == InitFrame /\ [][NextFrame]_vars

\* the rows of a notifications table without their sent and error fields
Unmarked(rows) ==
    [n \in DOMAIN rows |->
        [target |-> rows[n].target, kind |-> rows[n].kind, cycle |-> rows[n].cycle]]

\* C30: a step that records a probe cycle of target t appends one log row to
\* t's log and at most one notification row, which names t; of t's row it
\* changes at most status, consecutive_failures, last_check, response_time
\* and name (for a peer: status, consecutive_failures, last_check); it leaves
\* every other service's and peer's row and log, the existing notifications
\* and the mail server alone.  A dispatcher sweep changes nothing but the
\* sent and error fields of notifications (and hands emails to the mail
\* server).
C30_CycleTouchesOwnRow ==
    /\ [][\A t \in DOMAIN logs :
            Len(logs'[t]) # Len(logs[t]) =>
                /\ \A u \in DOMAIN logs \ {t} : logs'[u] = logs[u]
                /\ \A u \in DOMAIN services \ {t} : services'[u] = services[u]
                /\ \A u \in DOMAIN peers \ {t} : peers'[u] = peers[u]
                /\ Len(logs'[t]) = Len(logs[t]) + 1
                /\ SubSeq(logs'[t], 1, Len(logs[t])) = logs[t]
                /\ t \in DOMAIN services =>
                      services'[t].Caregiver = services[t].Caregiver
                /\ t \in DOMAIN peers =>
                      peers'[t].AdminEmail = peers[t].AdminEmail
                /\ \/ notifications' = notifications
                   \/ /\ Len(notifications') = Len(notifications) + 1
                      /\ SubSeq(notifications', 1, Len(notifications)) = notifications
                      /\ notifications'[Len(notifications')].target = t
                /\ outbox' = outbox]_vars
    /\ [][(swept' # swept \/ outbox' # outbox) =>
            /\ services' = services
            /\ peers' = peers
            /\ logs' = logs
            /\ Unmarked(notifications') = Unmarked(notifications)]_vars

\* a cycle of s1 has left a notification, a sweep has marked it sent, s1's
\* row shows the cycle's result, and the other service and the peer are as
\* they were added
C30_Witness ==
    /\ services["s1"].Status = "up"
    /\ services["s1"].Name = Some("Home")
    /\ "s2" \in DOMAIN services
    /\ services["s2"] = AddService
    /\ logs["s2"] = <<>>
    /\ peers["p1"] = AddPeer("p1")
    /\ \E n \in DOMAIN notifications :
          notifications[n].target = "s1" /\ notifications[n].Sent

\* ---------------------------------------------- specification SpecStartup
\* func main from LoadServices to the start of the goroutines, over a store
\* left by an earlier run and a configuration that may have changed since.
StartupServices == {"s1", "s2"}
StartupPeers == {"p1"}

\* a row an earlier run has left: probed, down twice
PersistedService ==
    [AddService EXCEPT !.Status = "down", !.ConsecutiveFailures = 2, !.LastCheck = Some(2)]

PersistedPeer(id) ==
    [AddPeer(id) EXCEPT !.Status = "up", !.LastCheck = Some(1)]

\* main at its first loop: todo holds the configuration entries not yet
\* visited, failed observes whether a store call has returned an error
MainStarting(todo) ==
    [call |-> 0, pc |-> "services", todo |-> todo, allServices |-> {},
     allPeers |-> {}, failed |-> FALSE]

InitStartup ==
    /\ \E cs \in SUBSET StartupServices, cp \in SUBSET StartupPeers :
          /\ config = [Retries |-> 0, Services |-> cs, PeerInstances |-> cp]
          /\ main = MainStarting(cs)
    /\ \E ss \in SUBSET StartupServices, sp \in SUBSET StartupPeers :
          /\ services \in [ss -> {AddService, PersistedService}]
          /\ peers \in {[id \in sp |-> AddPeer(id)], [id \in sp |-> PersistedPeer(id)]}
          /\ logs = [t \in ss \cup sp |-> <<>>]
    /\ notifications = <<>>
    /\ chk = NoCheck
    /\ node = NodeNew
    /\ outbox = <<>>
    /\ swept = NothingSwept
    /\ mon = [MonitorNew EXCEPT !.timers = [id \in StartupServices |-> 0]]
    /\ disp = ServiceNew
    /\ fed = FederationNew

\* one iteration of main's loop over servicesConfig.Services
ReconcileService ==
    \E url \in main.todo, getOK, addOK \in BOOLEAN :
        LET add == getOK /\ url \notin DOMAIN services /\ addOK IN
        /\ main.pc = "services"
        /\ services' = IF add THEN services @@ (url :> AddService) ELSE services
        /\ logs' = IF add THEN logs @@ (url :> <<>>) ELSE logs
        /\ main' = [main EXCEPT
                       !.todo = @ \ {url},
                       !.failed = @ \/ ~getOK \/ (url \notin DOMAIN services /\ ~addOK)]
        /\ UNCHANGED <<config, peers, notifications, chk, node, outbox, swept,
                       mon, disp, fed>>

\* allServices, err := db.GetAllServices(); log.Fatalf on an error
GetAllServices ==
    \E getOK \in BOOLEAN :
        /\ main.pc = "services"
        /\ main.todo = {}
        /\ main' = IF getOK
                   THEN [main EXCEPT !.pc = "peers", !.allServices = DOMAIN services,
                                     !.todo = config.PeerInstances]
                   ELSE [main EXCEPT !.pc = "exited", !.failed = TRUE]
        /\ UNCHANGED <<config, services, peers, logs, notifications, chk, node,
                       outbox, swept, mon, disp, fed>>

\* one iteration of main's loop over peerInstances
ReconcilePeer ==
    \E url \in main.todo, getOK, addOK \in BOOLEAN :
        LET add == getOK /\ url \notin DOMAIN peers /\ addOK IN
        /\ main.pc = "peers"
        /\ peers' = IF add THEN peers @@ (url :> AddPeer(url)) ELSE peers
        /\ logs' = IF add THEN logs @@ (url :> <<>>) ELSE logs
        /\ main' = [main EXCEPT
                       !.todo = @ \ {url},
                       !.failed = @ \/ ~getOK \/ (url \notin DOMAIN peers /\ ~addOK)]
        /\ UNCHANGED <<config, services, notifications, chk, node, outbox, swept,
                       mon, disp, fed>>

\* allPeers, err := db.GetAllPeers(); log.Fatalf on an error
GetAllPeers ==
    \E getOK \in BOOLEAN :
        /\ main.pc = "peers"
        /\ main.todo = {}
        /\ main' = IF getOK
                   THEN [main EXCEPT !.pc = "running", !.allPeers = DOMAIN peers]
                   ELSE [main EXCEPT !.pc = "exited", !.failed = TRUE]
        /\ UNCHANGED <<config, services, peers, logs, notifications, chk, node,
                       outbox, swept, mon, disp, fed>>

\* main's loop over allServices: one StartMonitoring for each
StartAllServices ==
    \E id \in main.allServices :
        /\ mon.timers[id] = 0
        /\ StartMonitoring(id)

\* if len(allPeers) > 0 { fedService.StartMonitoring() }
StartPeerMonitoring ==
    /\ main.pc = "running"
    /\ \A id \in main.allServices : mon.timers[id] # 0
    /\ main.allPeers # {}
    /\ fed.pc = "none"
    /\ fed' = [fed EXCEPT !.ticker = "running", !.pc = "spawned"]
    /\ UNCHANGED <<config, services, peers, logs, notifications, chk, node,
                   outbox, swept, mon, disp, main>>

NextStartup ==
    \/ ReconcileService \/ GetAllServices
    \/ ReconcilePeer \/ GetAllPeers
    \/ StartAllServices \/ StartPeerMonitoring

SpecStartup == InitStartup /\ [][NextStartup]_vars

\* main has started every goroutine it starts
StartupDone ==
    /\ main.pc = "running"
    /\ \A id \in main.allServices : mon.timers[id] # 0
    /\ main.allPeers = {} \/ fed.pc # "none"

\* the services that have a monitoring goroutine
MonitoredServices == {id \in DOMAIN mon.timers : mon.timers[id] # 0}

\* the peers the federation goroutine sweeps: those checkAllPeers reads
MonitoredPeers == IF fed.pc = "none" THEN {} ELSE DOMAIN peers

\* C31: when startup is over and no store call has failed, the stored and
\* the monitored services are the configured services, and the stored and
\* the monitored peers are the configured peers
C31_StoreEqualsConfiguration ==
    (StartupDone /\ ~main.failed) =>
        /\ DOMAIN services = config.Services
        /\ MonitoredServices = config.Services
        /\ DOMAIN peers = config.PeerInstances
        /\ MonitoredPeers = config.PeerInstances

\* ----------------------------------------------- specification SpecNaming
\* The goroutines main starts, one for each service, over rows added by this
\* run or left by an earlier one, probing an endpoint whose page has the
\* title Home or Blog or none, or which answers 500 or is unreachable;
\* UpdateService succeeds or fails.  Home is served in 7 ms and Blog in 9,
\* the untitled page in 5 ms or in less than one.
NamingResults ==
    {CheckService(<<r>>, 0) :
        r \in {TransportErr, HttpResponse(500, 5, FALSE, ""),
               HttpResponse(200, 7, TRUE, "Home"),
               HttpResponse(200, 9, TRUE, "Blog"), HttpResponse(200, 5, FALSE, ""),
               HttpResponse(200, 0, FALSE, "")}}

\* a row an earlier run has named
NamedService == [PersistedService EXCEPT !.Name = Some("Old")]

InitNaming ==
    /\ config = [Retries |-> 0]
    /\ services \in [Services -> {AddService, PersistedService, NamedService}]
    /\ peers = [id \in Peers |-> AddPeer(id)]
    /\ logs = [t \in Targets |-> <<>>]
    /\ notifications = <<>>
    /\ chk = NoCheck
    /\ node = NodeNew
    /\ ProcInit

NamingRecord(g) == \E updOK \in BOOLEAN : MonRecordWith(g, NamingResults, updOK, TRUE, TRUE)

NextNaming ==
    \/ StartServices
    \/ MonitorTick
    \/ \E g \in 1..MaxGoroutines : MonBeginInitial(g) \/ NamingRecord(g) \/ MonTakeTick(g)

SpecNaming == InitNaming /\ [][NextNaming]_vars

\* C32: a step that changes a service's stored name records a probe cycle
\* of that service, starts from an absent name and stores a title a probe
\* returned; a stored name is never changed
C32_NameSetOnce ==
    [][\A id \in DOMAIN services :
          services'[id].Name # services[id].Name =>
              /\ services[id].Name = Null
              /\ services'[id].Name \in {Some(r.Title) : r \in {x \in NamingResults : x.Title # ""}}
              /\ Len(logs'[id]) = Len(logs[id]) + 1
              /\ logs'[id][Len(logs'[id])].Status = "up"]_vars

\* the name Home was stored by the first cycle, and a second cycle that
\* was served the page titled Blog has been recorded
C32_Witness ==
    \E id \in DOMAIN services :
        /\ services[id].Name = Some("Home")
        /\ Len(logs[id]) >= 2
        /\ logs[id][1].ResponseTime = Some(7)
        /\ logs[id][2].ResponseTime = Some(9)

\* the other parts of C33: the status is up or down, an error message is
\* carried exactly by a down result, a response time only by an up result
ServiceResultWellFormed ==
    (Returned /\ chk.kind = "service") =>
        /\ chk.result.Status \in {"up", "down"}
        /\ (chk.result.Error # "") <=> (chk.result.Status = "down")
        /\ chk.result.ResponseTime > 0 => chk.result.Status = "up"

\* C33: CheckService returns up if and only if the response of its last
\* attempt has a 2xx or 3xx status code; the status is up or down, an error
\* message is carried exactly by a down result, a response time only by an
\* up result
C33_UpIff2xxOr3xx ==
    /\ ServiceResultWellFormed
    /\ (Returned /\ chk.kind = "service" /\ chk.result.attempts >= 1) =>
          LET final == chk.behaviour[chk.result.attempts]
          IN  (chk.result.Status = "up")
                  <=> (final.err = "none" /\ final.code >= 200 /\ final.code < 400)

\* -------------------------------------------- specification SpecThreshold
\* The state machine Spec on an instance whose configuration sets
\* monitoring.failure_threshold to a value up to the default.
InitThreshold ==
    /\ config \in [Retries : {0}, FailureThreshold : 1..FailureThreshold]
    /\ StoreInit
    /\ chk = NoCheck
    /\ node = NodeNew
    /\ ProcInit

SpecThreshold == InitThreshold /\ [][Next]_vars

\* C34: a cycle creates a DOWN notification exactly when it changes the
\* status to down with a run of failures that has reached the configured
\* failure threshold
C34_ConfiguredThreshold ==
    \A t \in Targets : \A i \in Cycles(t) :
        NotifsAt(t, "DOWN", i) =
            IF /\ StatusBefore(t, i) # StatusAt(t, i)
               /\ StatusAt(t, i) = "down"
               /\ Streak(t, i) >= config.FailureThreshold
            THEN 1 ELSE 0

\* ------------------------------------------------ specification SpecSweep
\* The federation goroutine over a store that holds two peers, the store's
\* reads and writes succeeding or failing.
SweepPeers == {"p1", "p2"}

InitSweep ==
    /\ config = [Retries |-> 0]
    /\ services = [id \in Services |-> AddService]
    /\ peers = [id \in SweepPeers |-> AddPeer(id)]
    /\ logs = [t \in Services \cup SweepPeers |-> <<>>]
    /\ notifications = <<>>
    /\ chk = NoCheck
    /\ node = NodeNew
    /\ ProcInit

NextSweep ==
    \/ StartServices
    \/ FedStartMonitoring
    \/ FederationTick
    \/ FedBeginInitial
    \/ FedFinishCheckFaulty
    \/ FedTakeTick

SpecSweep == InitSweep /\ [][NextSweep]_vars

\* the peers a sequence of rows names, with repetitions
QueueIds(q) == [i \in DOMAIN q |-> q[i].id]

\* C35: a sweep begins on the goroutine's first step or on a tick of the one
\* federation ticker; a sweep whose GetAllPeers succeeded visits every stored
\* peer exactly once, with the row as stored when the sweep began; the peers
\* are checked one at a time (the peer in flight is the head of the list,
\* each record step is of that peer and of no other, and the next sweep
\* begins only when the list is exhausted)
C35_SweepChecksEveryPeerOnce ==
    /\ [][(fed.pc # "check" /\ fed'.pc = "check") =>
            /\ fed.queue = <<>>
            /\ Len(fed'.queue) = Cardinality(DOMAIN peers)
            /\ Range(QueueIds(fed'.queue)) = DOMAIN peers
            /\ \A i \in DOMAIN fed'.queue : fed'.queue[i].peer = peers[fed'.queue[i].id]
            /\ fed.pc = "spawned" \/ (fed.tick /\ ~fed'.tick)]_vars
    /\ [][fed.pc = "check" =>
            /\ fed'.queue \in {fed.queue, Tail(fed.queue)}
            /\ fed'.pc = (IF fed'.queue = <<>> THEN "select" ELSE "check")
            /\ \A id \in DOMAIN peers :
                  (peers'[id] # peers[id] \/ logs'[id] # logs[id]) =>
                      (id = Head(fed.queue).id /\ fed'.queue = Tail(fed.queue))]_vars
    /\ [][fed.pc # "check" => (peers' = peers /\ \A id \in DOMAIN peers : logs'[id] = logs[id])]_vars

\* a sweep has checked both stored peers, once each, and the goroutine is
\* back at its select
C35_Witness ==
    /\ fed.pc = "select"
    /\ fed.cycles = Cardinality(DOMAIN peers)
    /\ \A id \in DOMAIN peers : Len(logs[id]) = 1
    /\ Cardinality(DOMAIN peers) = 2

\* ---------------------------------------------- specification SpecNodeFed
\* The Node backend's federation service: startFederation, the chain of
\* runFederationCheck calls re-armed by setTimeout, and shutdown.
NodePeers == <<"https://p1.example", "https://p2.example">>

\* setupFederationService: timer = null, no check under way.  pc is where
\* runFederationCheck stands, next the index of the peer its loop is at,
\* runs counts the calls of runFederationCheck, checked the peers checked,
\* shut tells whether shutdown() has been called
NodeFedNew ==
    [timer |-> "null", pc |-> "none", next |-> 0, runs |-> 0, checked |-> 0,
     shut |-> FALSE] @@ NodeNew

InitNodeFed ==
    /\ config = [Retries |-> 0]
    /\ StoreInit
    /\ chk = NoCheck
    /\ node = NodeFedNew
    /\ ProcInit

\* runFederationCheck is entered: the loop is at its first peer, awaiting
\* checkPeer
RunFederationCheckBegin == [node EXCEPT !.pc = "checkPeer", !.next = 1, !.runs = @ + 1]

\* startFederation(): config.peers is not empty, runFederationCheck() is called
NodeStartFederation ==
    /\ node.pc = "none"
    /\ node.runs = 0
    /\ Len(NodePeers) > 0
    /\ node' = RunFederationCheckBegin
    /\ UNCHANGED <<config, services, peers, logs, notifications, chk, procVars>>

\* timer = setTimeout(runFederationCheck, peerCheckInterval * 1000)
ScheduleNext(n) == [n EXCEPT !.timer = "armed"]

\* one iteration of the loop: checkPeer resolves, the statuses of a peer that
\* is up are fetched and stored; after the last peer the next check is
\* scheduled and runFederationCheck returns
NodePeerChecked ==
    /\ node.pc = "checkPeer"
    /\ \E isUp \in BOOLEAN, received \in 0..1 :
         LET stored == IF isUp /\ received = 1
                       THEN Append(node.service_status,
                                   [call |-> 0, url |-> NodePeers[node.next],
                                    isUp |-> TRUE, lastChecked |-> node.now])
                       ELSE node.service_status
             looped == [node EXCEPT !.service_status = stored,
                                    !.now = @ + 1,
                                    !.checked = @ + 1,
                                    !.next = @ + 1]
         IN node' = IF node.next < Len(NodePeers) THEN looped
                    ELSE ScheduleNext([looped EXCEPT !.pc = "idle", !.next = 0])
    /\ UNCHANGED <<config, services, peers, logs, notifications, chk, procVars>>

\* the timeout elapses: the event loop calls runFederationCheck; the variable
\* timer keeps the handle of the timeout that has fired
NodeTimerFires ==
    /\ node.timer = "armed"
    /\ node.runs < MaxNodeChecks
    /\ node' = [RunFederationCheckBegin EXCEPT !.timer = "fired"]
    /\ UNCHANGED <<config, services, peers, logs, notifications, chk, procVars>>

\* shutdown(): if (timer) { clearTimeout(timer); timer = null }
NodeShutdown ==
    /\ ~node.shut
    /\ node.pc # "none"
    /\ node' = [node EXCEPT !.timer = "null", !.shut = TRUE]
    /\ UNCHANGED <<config, services, peers, logs, notifications, chk, procVars>>

NextNodeFed == NodeStartFederation \/ NodePeerChecked \/ NodeTimerFires \/ NodeShutdown

SpecNodeFed == InitNodeFed /\ [][NextNodeFed]_vars

\* C36: once shutdown() has been called no peer is checked, no
\* runFederationCheck is entered and no timeout is armed
C36_NoCheckAfterShutdown ==
    [][node.shut =>
          /\ node'.checked = node.checked
          /\ node'.runs = node.runs
          /\ node'.timer # "armed"]_vars

\* C37: a tick on which GetService returns no record or an error begins no
\* probe and changes no service, peer, log or notification; the goroutine is
\* at its select afterwards, where it takes the next tick and the quit signal
C37_FailedRefreshSkipsCycle ==
    /\ [][\A g \in Goroutines :
            (/\ mon.goroutines[g].pc = "select"
             /\ mon'.tickers[mon.goroutines[g].ticker].C
                    < mon.tickers[mon.goroutines[g].ticker].C
             /\ ~mon'.goroutines[g].refreshed) =>
                /\ mon'.goroutines[g].pc = "select"
                /\ mon'.goroutines[g].cycles = mon.goroutines[g].cycles
                /\ services' = services
                /\ peers' = peers
                /\ logs' = logs
                /\ notifications' = notifications]_vars
    /\ [](\A g \in Goroutines :
            (Alive /\ mon.goroutines[g].pc = "select" /\ ~mon.goroutines[g].refreshed) =>
                /\ mon.quit => ENABLED MonTakeQuit(g)
                /\ (/\ mon.tickers[mon.goroutines[g].ticker].C > 0
                    /\ CyclesBegun < MaxLifeCycles) => ENABLED MonTakeTick(g))

\* a tick's refresh gave no row, no cycle followed it, and the next tick of the
\* goroutine's ticker is waiting
C37_Witness ==
    \E g \in Goroutines :
        /\ mon.goroutines[g].pc = "select"
        /\ ~mon.goroutines[g].refreshed
        /\ mon.goroutines[g].cycles = 1
        /\ Len(logs[mon.goroutines[g].svc]) = 1
        /\ mon.tickers[mon.goroutines[g].ticker].C = 1

\* ----------------------------------------------- specification SpecHealth
\* A request for the health response while the probe cycles of the services
\* go on.  GetServiceStats runs its four COUNT queries one after the other,
\* outside a transaction.
CountWhere(status) == Cardinality({id \in DOMAIN services : services[id].Status = status})

\* GetHealthStatus is called: GetServiceStats is at its first query
HealthRequest ==
    /\ chk = NoCheck
    /\ chk' = [kind |-> "health", pc |-> "total", Total |-> 0, Up |-> 0, Down |-> 0,
               Unknown |-> 0]
    /\ UNCHANGED <<config, services, peers, logs, notifications, node, procVars>>

\* db.conn.Model(&models.Service{}).Count(&total)
CountTotal ==
    /\ chk.kind = "health" /\ chk.pc = "total"
    /\ chk' = [chk EXCEPT !.Total = Cardinality(DOMAIN services), !.pc = "up"]
    /\ UNCHANGED <<config, services, peers, logs, notifications, node, procVars>>

\* ...Where("status = ?", "up").Count(&up)
CountUp ==
    /\ chk.kind = "health" /\ chk.pc = "up"
    /\ chk' = [chk EXCEPT !.Up = CountWhere("up"), !.pc = "down"]
    /\ UNCHANGED <<config, services, peers, logs, notifications, node, procVars>>

\* ...Where("status = ?", "down").Count(&down)
CountDown ==
    /\ chk.kind = "health" /\ chk.pc = "down"
    /\ chk' = [chk EXCEPT !.Down = CountWhere("down"), !.pc = "unknown"]
    /\ UNCHANGED <<config, services, peers, logs, notifications, node, procVars>>

\* ...Where("status = ?", "unknown").Count(&unknown); GetHealthStatus builds
\* the HealthResponse from the stats
CountUnknown ==
    /\ chk.kind = "health" /\ chk.pc = "unknown"
    /\ chk' = [chk EXCEPT !.Unknown = CountWhere("unknown"), !.pc = "returned"]
    /\ UNCHANGED <<config, services, peers, logs, notifications, node, procVars>>

\* the HealthResponse of the returned call
HealthResponse ==
    [ServicesMonitored |-> chk.Total, ServicesUp |-> chk.Up, ServicesDown |-> chk.Down]

NextHealth ==
    \/ NotifyingCheck
    \/ HealthRequest \/ CountTotal \/ CountUp \/ CountDown \/ CountUnknown

SpecHealth == InitDispatch /\ [][NextHealth]_vars

\* C38: a health response has services_up + services_down <= services_monitored
C38_HealthCountsConsistent ==
    (chk.kind = "health" /\ chk.pc = "returned") =>
        HealthResponse.ServicesUp + HealthResponse.ServicesDown
            <= HealthResponse.ServicesMonitored

\* C39: the status of a service or peer is unknown, up or down; it is
\* unknown only on a row no cycle has written (as AddService and AddPeer
\* made it), and up or down once a cycle's update was persisted; no step
\* changes a status to unknown
C39_UnknownOnlyBeforeFirstCycle ==
    /\ [](\A id \in DOMAIN services :
            /\ services[id].Status \in {"unknown", "up", "down"}
            /\ services[id].Status = "unknown" => services[id] = AddService
            /\ services[id].LastCheck # Null => services[id].Status \in {"up", "down"})
    /\ [](\A id \in DOMAIN peers :
            /\ peers[id].Status \in {"unknown", "up", "down"}
            /\ peers[id].Status = "unknown" => peers[id] = AddPeer(id)
            /\ peers[id].LastCheck # Null => peers[id].Status \in {"up", "down"})
    /\ [][/\ \A id \in DOMAIN services :
               services'[id].Status = "unknown" => services[id].Status = "unknown"
          /\ \A id \in DOMAIN peers :
               peers'[id].Status = "unknown" => peers[id].Status = "unknown"]_vars

\* a service has been through a persisted cycle and is up or down, while a
\* peer whose only cycle failed to update the store is still unknown
C39_Witness ==
    /\ \E id \in DOMAIN services :
          services[id].LastCheck # Null /\ services[id].Status \in {"up", "down"}
    /\ \E id \in DOMAIN peers :
          /\ peers[id].Status = "unknown"
          /\ fed.cycles >= 1
          /\ fed.pc = "select"
          /\ "update" \in fed.printed

\* C40: a recorded cycle stores its status, its failure count and its time
\* of check; it leaves the stored response_time as it was when its result is
\* down, and changes it only to the response time it measured; nothing but
\* a recorded cycle changes response_time
C40_DownKeepsResponseTime ==
    /\ [][\A id \in DOMAIN services :
            Len(logs'[id]) = Len(logs[id]) + 1 =>
                LET row == logs'[id][Len(logs'[id])] IN
                /\ services'[id].Status = row.Status
                /\ services'[id].LastCheck = Some(Len(logs'[id]))
                /\ services'[id].ConsecutiveFailures =
                      IF row.Status = "down" THEN services[id].ConsecutiveFailures + 1 ELSE 0
                /\ row.Status = "down" =>
                      services'[id].ResponseTime = services[id].ResponseTime
                /\ services'[id].ResponseTime # services[id].ResponseTime =>
                      /\ row.Status = "up"
                      /\ row.ResponseTime # Null
                      /\ services'[id].ResponseTime = row.ResponseTime]_vars
    /\ [][\A id \in DOMAIN services :
            services'[id].ResponseTime # services[id].ResponseTime =>
                Len(logs'[id]) = Len(logs[id]) + 1]_vars

\* a cycle measured 7 ms, the next cycle was down, and the stored
\* response_time is still 7
C40_Witness ==
    \E id \in DOMAIN services :
        /\ Len(logs[id]) = 2
        /\ logs[id][1].Status = "up" /\ logs[id][1].ResponseTime = Some(7)
        /\ logs[id][2].Status = "down"
        /\ services[id].Status = "down"
        /\ services[id].LastCheck = Some(2)
        /\ services[id].ResponseTime = Some(7)

====
